---------------------------- MODULE Spec2Model ----------------------------
(***************************************************************************)
(* A model of the statistical analysis pipeline of tapestry-analysis:      *)
(* SimpleHistogram::new, ks::critical_value, ks::statistic and             *)
(* Experiment::run, together with the f32 arithmetic they are written in.  *)
(*                                                                         *)
(* TLC's integers are 32-bit signed, so                                    *)
(*   - an f32 is the record [s, e, m] of its IEEE 754 binary32 fields      *)
(*     (sign bit, biased exponent, 23-bit fraction), and every operation   *)
(*     is computed on these fields with round-to-nearest-even;             *)
(*   - a u32 is the pair <<hi, lo>> of its two 16-bit halves.              *)
(***************************************************************************)
EXTENDS Integers, Sequences, FiniteSets, TLC

(***************************************************************************)
(* IEEE 754 binary32                                                       *)
(***************************************************************************)
F32(s, e, m) == [s |-> s, e |-> e, m |-> m]

IsNaN(x) == x.e = 255 /\ x.m # 0
IsInf(x) == x.e = 255 /\ x.m = 0
IsZero(x) == x.e = 0 /\ x.m = 0
IsFinite(x) == x.e < 255

F32Zero(s) == F32(s, 0, 0)
F32Inf(s) == F32(s, 255, 0)
\* the default quiet NaN the hardware produces for an invalid operation
F32NaN == F32(0, 255, 2^22)
F32One == F32(0, 127, 0)

\* a finite x is Sig(x) * 2^Exp(x)
Sig(x) == IF x.e = 0 THEN x.m ELSE 2^23 + x.m
Exp(x) == IF x.e = 0 THEN -149 ELSE x.e - 150

\* number of bits of 0 <= n < 2^31
BitLen(n) == IF n = 0 THEN 0 ELSE CHOOSE k \in 1..31 : n \div 2^(k - 1) = 1

\* the finite nonzero x as <<M, E>> with 2^23 <= M < 2^24 and x = M * 2^E
Norm(x) ==
    LET k == 24 - BitLen(Sig(x))
    IN  <<Sig(x) * 2^k, Exp(x) - k>>

\* (-1)^s * n * 2^E rounded to the nearest binary32, ties to even; sticky says
\* that the exact value lies strictly above n * 2^E (below the next integer),
\* and is given only with n of 25 bits or more.
RoundPack(s, n, E, sticky) ==
    IF n = 0 THEN F32Zero(s)
    ELSE
    LET nb    == BitLen(n)
        sh    == IF E + nb - 24 < -149 THEN -149 - E ELSE nb - 24
        q     == IF sh <= 0 THEN n * 2^(-sh)
                 ELSE IF sh >= 31 THEN 0 ELSE n \div 2^sh
        r     == IF sh <= 0 THEN 0
                 ELSE IF sh >= 31 THEN n ELSE n % 2^sh
        up    == IF sh <= 0 \/ sh >= 32 THEN FALSE
                 ELSE LET half == 2^(sh - 1)
                      IN  \/ r > half
                          \/ r = half /\ (sticky \/ q % 2 = 1)
        q1    == IF up THEN q + 1 ELSE q
        q2    == IF q1 = 2^24 THEN 2^23 ELSE q1
        E2    == IF q1 = 2^24 THEN E + sh + 1 ELSE E + sh
    IN  IF q2 = 0 THEN F32Zero(s)
        ELSE IF q2 < 2^23 THEN F32(s, 0, q2)
        ELSE IF E2 + 150 >= 255 THEN F32Inf(s)
        ELSE F32(s, E2 + 150, q2 - 2^23)

\* n \div 2^d with every bit shifted out or-ed into the lowest bit kept
ShiftRightJam(n, d) ==
    IF d = 0 THEN n
    ELSE IF d >= 31 THEN (IF n = 0 THEN 0 ELSE 1)
    ELSE LET q == n \div 2^d
         IN  IF n % 2^d = 0 \/ q % 2 = 1 THEN q ELSE q + 1

\* the sum of the finite nonzero x and y, each taken with the sign given
AddMagnitudes(sx, x, sy, y) ==
    LET big   == IF Exp(x) >= Exp(y) THEN x ELSE y
        small == IF Exp(x) >= Exp(y) THEN y ELSE x
        sbig  == IF Exp(x) >= Exp(y) THEN sx ELSE sy
        ssml  == IF Exp(x) >= Exp(y) THEN sy ELSE sx
        d     == Exp(big) - Exp(small)
        A     == Sig(big) * 8
        B     == ShiftRightJam(Sig(small) * 8, d)
        E     == Exp(big) - 3
    IN  IF sbig = ssml THEN RoundPack(sbig, A + B, E, FALSE)
        ELSE IF A = B THEN F32Zero(0)
        ELSE IF A > B THEN RoundPack(sbig, A - B, E, FALSE)
        ELSE RoundPack(ssml, B - A, E, FALSE)

\* x + y with the sign of y replaced by sy
AddSigned(x, y, sy) ==
    IF IsNaN(x) \/ IsNaN(y) THEN F32NaN
    ELSE IF IsInf(x) /\ IsInf(y) THEN (IF x.s = sy THEN x ELSE F32NaN)
    ELSE IF IsInf(x) THEN x
    ELSE IF IsInf(y) THEN F32Inf(sy)
    ELSE IF IsZero(x) /\ IsZero(y) THEN F32Zero(IF x.s = 1 /\ sy = 1 THEN 1 ELSE 0)
    ELSE IF IsZero(y) THEN x
    ELSE IF IsZero(x) THEN F32(sy, y.e, y.m)
    ELSE AddMagnitudes(x.s, x, sy, y)

\* the f32 operators +, - and unary abs
F32Add(x, y) == AddSigned(x, y, y.s)
F32Sub(x, y) == AddSigned(x, y, 1 - y.s)
F32Abs(x) == F32(0, x.e, x.m)

\* the 48-bit product a * b of two 24-bit numbers as <<hi, lo>>, 24 bits each
Mul24(a, b) ==
    LET a1  == a \div 4096
        a0  == a % 4096
        b1  == b \div 4096
        b0  == b % 4096
        mid == a1 * b0 + a0 * b1
        low == a0 * b0 + (mid % 4096) * 4096
    IN  <<a1 * b1 + mid \div 4096 + low \div 2^24, low % 2^24>>

\* the f32 operator *
F32Mul(x, y) ==
    LET s == (x.s + y.s) % 2
    IN  IF IsNaN(x) \/ IsNaN(y) THEN F32NaN
        ELSE IF IsInf(x) \/ IsInf(y)
             THEN (IF IsZero(x) \/ IsZero(y) THEN F32NaN ELSE F32Inf(s))
        ELSE IF IsZero(x) \/ IsZero(y) THEN F32Zero(s)
        ELSE LET nx == Norm(x)
                 ny == Norm(y)
                 p  == Mul24(nx[1], ny[1])
                 \* the top 26 bits of the product, the rest as sticky
             IN  RoundPack(s, p[1] * 4 + p[2] \div 2^22,
                           nx[2] + ny[2] + 22, p[2] % 2^22 # 0)

\* one step of long division: qr = <<q, r>> extended by k more quotient bits
DivChunk(qr, den, k) ==
    <<qr[1] * 2^k + (qr[2] * 2^k) \div den, (qr[2] * 2^k) % den>>

\* <<num * 2^(24 + k) \div den, remainder>> for 24-bit num, den and k in 1..2
LongDiv(num, den, k) ==
    LET s0 == <<num \div den, num % den>>
        s1 == DivChunk(s0, den, 6)
        s2 == DivChunk(s1, den, 6)
        s3 == DivChunk(s2, den, 6)
        s4 == DivChunk(s3, den, 6)
    IN  DivChunk(s4, den, k)

\* the f32 operator /
F32Div(x, y) ==
    LET s == (x.s + y.s) % 2
    IN  IF IsNaN(x) \/ IsNaN(y) THEN F32NaN
        ELSE IF IsInf(x) THEN (IF IsInf(y) THEN F32NaN ELSE F32Inf(s))
        ELSE IF IsInf(y) THEN F32Zero(s)
        ELSE IF IsZero(y) THEN (IF IsZero(x) THEN F32NaN ELSE F32Inf(s))
        ELSE IF IsZero(x) THEN F32Zero(s)
        ELSE LET nx == Norm(x)
                 ny == Norm(y)
                 k  == IF nx[1] >= ny[1] THEN 1 ELSE 2
                 qr == LongDiv(nx[1], ny[1], k)
             IN  RoundPack(s, qr[1], nx[2] - ny[2] - 24 - k, qr[2] # 0)

\* <<floor(sqrt(n)), n - floor(sqrt(n))^2>> for 0 <= n < 2^26
RECURSIVE IntSqrtRem(_)
IntSqrtRem(n) ==
    IF n = 0 THEN <<0, 0>>
    ELSE LET p     == IntSqrtRem(n \div 4)
             rem   == p[2] * 4 + (n % 4)
             trial == p[1] * 4 + 1
         IN  IF rem >= trial THEN <<p[1] * 2 + 1, rem - trial>>
             ELSE <<p[1] * 2, rem>>

\* the root and remainder rr of n carried on to those of n * 4^j
RECURSIVE SqrtExtend(_, _)
SqrtExtend(rr, j) ==
    IF j = 0 THEN rr
    ELSE LET rem   == rr[2] * 4
             trial == rr[1] * 4 + 1
         IN  SqrtExtend(IF rem >= trial THEN <<rr[1] * 2 + 1, rem - trial>>
                        ELSE <<rr[1] * 2, rem>>, j - 1)

\* f32::sqrt
F32Sqrt(x) ==
    IF IsNaN(x) THEN F32NaN
    ELSE IF IsZero(x) THEN x
    ELSE IF x.s = 1 THEN F32NaN
    ELSE IF IsInf(x) THEN x
    ELSE LET nx  == Norm(x)
             odd == nx[2] % 2 # 0
             M   == IF odd THEN nx[1] * 2 ELSE nx[1]
             E   == IF odd THEN nx[2] - 1 ELSE nx[2]
             j   == IF odd THEN 13 ELSE 14
             rr  == SqrtExtend(IntSqrtRem(M), j)
         IN  RoundPack(0, rr[1], E \div 2 - j, rr[2] # 0)

\* the key of f32::total_cmp: the bits as an i32, with the low 31 bits of a
\* negative value flipped
TotalKey(x) ==
    LET mag == x.e * 2^23 + x.m
    IN  IF x.s = 0 THEN mag ELSE -mag - 1

\* the f32 operators <, >, == (false when either side is NaN; -0 == +0)
F32Lt(x, y) ==
    /\ ~IsNaN(x) /\ ~IsNaN(y)
    /\ ~(IsZero(x) /\ IsZero(y))
    /\ TotalKey(x) < TotalKey(y)
\* (a variant that also holds of unordered operands)
F32GtOrUnordered(x, y) == IsNaN(x) \/ IsNaN(y) \/ F32Lt(y, x)

F32Gt(x, y) == F32Lt(y, x)
F32Eq(x, y) ==
    /\ ~IsNaN(x) /\ ~IsNaN(y)
    /\ (IsZero(x) /\ IsZero(y)) \/ x = y
F32Le(x, y) == F32Lt(x, y) \/ F32Eq(x, y)

\* f32::max: the other operand when one is NaN
F32Max(x, y) ==
    IF IsNaN(x) THEN y
    ELSE IF IsNaN(y) THEN x
    ELSE IF F32Lt(x, y) THEN y ELSE x

\* `v as f32` for the u32 v = hi * 2^16 + lo
U32ToF32(v) ==
    IF v[1] < 2^15 THEN RoundPack(0, v[1] * 2^16 + v[2], 0, FALSE)
    ELSE RoundPack(0, v[1] * 2^15 + v[2] \div 2, 1, v[2] % 2 = 1)

\* the u32 of a number below 2^31
U32(n) == <<n \div 2^16, n % 2^16>>

\* an f32 literal num/den of the source, for num and den below 2^24: the
\* compiler rounds the decimal to the nearest f32, as the division of the two
\* exactly representable integers does
Lit(num, den) == F32Div(U32ToF32(U32(num)), U32ToF32(U32(den)))

\* `x.floor() as usize` for a finite x >= 0 below 2^31
FloorToUsize(x) ==
    IF IsZero(x) THEN 0
    ELSE IF Exp(x) >= 0 THEN Sig(x) * 2^Exp(x)
    ELSE IF Exp(x) <= -31 THEN 0
    ELSE Sig(x) \div 2^(-Exp(x))

(***************************************************************************)
(* Bounds of the model                                                     *)
(***************************************************************************)
\* longest experiment handed to SimpleHistogram::new
MaxHistSamples == 2
\* largest sample size critical_value is called with
MaxN == 1000000
\* critical_value is called with the CvSpan + 1 sample sizes from each of
\* CvBases on, and with the CvSpan + 1 sample sizes up to MaxN
CvSpan == 3
\* longest experiment drawn from KsSamples handed to ks::statistic
MaxKsSamples == 3
\* largest message_size and num_experiments given to Experiment::run
MaxMessageSize == 2
MaxExperiments == 2

(***************************************************************************)
(* State                                                                   *)
(***************************************************************************)
VARIABLES
    experiment_u32,  \* the Experiment<u32> given to SimpleHistogram::new
    histogram,       \* what SimpleHistogram::new returned, or that it panicked
    cv_args,         \* the levels and sample sizes critical_value is called with
    cv_prev,         \* the first call of critical_value: level, n and result
    cv_last,         \* the second call of critical_value
    experiment_f32,  \* the Experiment<f32> given to ks::statistic
    parameters,      \* the DiscreteUniformDistributionParameters given to it
    ks_statistic,    \* what ks::statistic returned, None before the call
    run,             \* the two calls of Experiment::run in progress: for each
                     \* its arguments, locals and position, and the history
                     \* of the calls it made on its distribution and checksum
    distribution,    \* the Distribution<u32> a caller constructed: its variant,
                     \* fields and generator state, and the samples it returned
    ord_args,        \* the three Sample<f32> values that are compared
    ord_result,      \* what the comparison operators returned on them
    ks_test,         \* a KS test in progress: the Experiment<u32>, statistic,
                     \* critical value and the line reported
    cdf_n,           \* the n given to shifted_uniform_cdf_distribution
    cdf_out,         \* what it returned, and what the tests computed from it
    conv,            \* a sample count or bin index and what its conversion gave
    norm,            \* a call of normalize_variable: item, parameters, result
    sorting          \* a Vec<Sample<f32>> and what sort() made of it

hist_vars == <<experiment_u32, histogram>>
cv_vars == <<cv_args, cv_prev, cv_last>>
ks_vars == <<experiment_f32, parameters, ks_statistic>>
dist_vars == <<distribution>>
ord_vars == <<ord_args, ord_result>>
rule_vars == <<ks_test>>
cdf_vars == <<cdf_n, cdf_out>>
conv_vars == <<conv>>
fn_vars == <<norm, sorting>>
vars == <<hist_vars, cv_vars, ks_vars, run,
          dist_vars, ord_vars, rule_vars, cdf_vars, conv_vars, fn_vars>>

\* Option<T>
None == [some |-> FALSE]
Some(v) == [some |-> TRUE, v |-> v]

\* all sequences over S of length at most n
SeqsUpTo(S, n) == UNION {[1..k -> S] : k \in 0..n}

\* q[lo] + ... + q[hi]
RECURSIVE SumRange(_, _, _)
SumRange(q, lo, hi) ==
    IF lo > hi THEN 0
    ELSE IF lo = hi THEN q[lo]
    ELSE LET mid == (lo + hi) \div 2
         IN  SumRange(q, lo, mid) + SumRange(q, mid + 1, hi)

SumSeq(q) == SumRange(q, 1, Len(q))

(***************************************************************************)
(* histogram.rs                                                            *)
(***************************************************************************)
U32_MAX == <<65535, 65535>>

\* the u32 samples binned: both ends of the domain, the two sides of the bin
\* boundaries of 2 and of 10 bins, and the two sides of the point from which
\* `as f32` rounds up to 2^32
HistSamples ==
    { <<0, 0>>, <<0, 1>>,
      <<6553, 39321>>,                  \* 429496729 = floor(2^32 / 10)
      <<32767, 65535>>, <<32768, 0>>,   \* 2^31 - 1, 2^31
      <<65535, 65407>>,                 \* 2^32 - 129
      <<65535, 65408>>,                 \* 2^32 - 128
      U32_MAX }

\* the values of num_bins
HistNumBins == {1, 2, 3, 10, 255}

NoHistogram == [status |-> "none"]
HistogramPanic == [status |-> "panic"]

\* the bin of one sample:
\*   (experiment.samples[i].sample as f32 * bin_boundary).floor() as usize
BinOf(v, bin_boundary) == FloorToUsize(F32Mul(U32ToF32(v), bin_boundary))

\* the loop `for i in 0..experiment.samples.len()` from sample i on: the bins
\* (bins[k] of the code is bins[k + 1] here), with panic set where the
\* indexing bins[bin as usize] is out of bounds
RECURSIVE BinSamples(_, _, _, _)
BinSamples(samples, i, bins, bin_boundary) ==
    IF i > Len(samples) THEN [panic |-> FALSE, bins |-> bins]
    ELSE LET bin == BinOf(samples[i], bin_boundary)
         IN  IF bin >= Len(bins) THEN [panic |-> TRUE, bins |-> bins]
             ELSE BinSamples(samples, i + 1,
                             [bins EXCEPT ![bin + 1] = @ + 1], bin_boundary)

\* SimpleHistogram::new(experiment, num_bins)
SimpleHistogramNew(samples, num_bins) ==
    LET bin_boundary == F32Div(U32ToF32(U32(num_bins)), U32ToF32(U32_MAX))
        binned == BinSamples(samples, 1, [k \in 1..num_bins |-> 0],
                             bin_boundary)
    IN  IF binned.panic THEN HistogramPanic
        ELSE [status |-> "ok", num_bins |-> num_bins, bins |-> binned.bins,
              num_data_points |-> Len(samples)]

\* a caller builds an Experiment<u32> (the field `samples` is public)
NewExperimentU32 ==
    \E e \in SeqsUpTo(HistSamples, MaxHistSamples) :
        /\ e # experiment_u32
        /\ experiment_u32' = e
        /\ histogram' = NoHistogram
        /\ UNCHANGED <<fn_vars,
                       cv_vars, ks_vars, run, dist_vars, ord_vars, rule_vars,
                     cdf_vars, conv_vars>>

\* a caller calls SimpleHistogram::new(&experiment, num_bins)
HistogramNew ==
    \E num_bins \in HistNumBins :
        /\ histogram' = SimpleHistogramNew(experiment_u32, num_bins)
        /\ UNCHANGED <<fn_vars,
                       experiment_u32, cv_vars, ks_vars, run, dist_vars,
                     ord_vars, rule_vars, cdf_vars, conv_vars>>

(***************************************************************************)
(* ks.rs: critical_value                                                   *)
(***************************************************************************)
CriticalValue == {"TenPercent", "FivePercent", "OnePercent"}

\* the first sample size with a critical value: the match arm 41..=u32::MAX
CvMinN == 41

\* the literals 1.07, 1.358 and 1.52 of the three match arms
\* (a variant with 1.36, the constant of the usual tables, for the 5% level)
CvConstant136(cv) ==
    CASE cv = "TenPercent" -> Lit(107, 100)
      [] cv = "FivePercent" -> Lit(136, 100)
      [] cv = "OnePercent" -> Lit(152, 100)

\* (a variant with the literals of the 10% and the 1% level exchanged)
CvConstantExchanged(cv) ==
    CASE cv = "TenPercent" -> Lit(152, 100)
      [] cv = "FivePercent" -> Lit(1358, 1000)
      [] cv = "OnePercent" -> Lit(107, 100)

CvConstant(cv) ==
    CASE cv = "TenPercent" -> Lit(107, 100)
      [] cv = "FivePercent" -> Lit(1358, 1000)
      [] cv = "OnePercent" -> Lit(152, 100)

\* critical_value(cv, n), n a sample size below 2^31
\* (a variant whose first arm is 0..=39)
critical_value_from_40(cv, n) ==
    IF n < CvMinN - 1 THEN None
    ELSE Some(F32Div(CvConstant(cv), F32Sqrt(U32ToF32(U32(n)))))

\* (a variant that multiplies by the square root)
critical_value_times_sqrt(cv, n) ==
    IF n < CvMinN THEN None
    ELSE Some(F32Mul(CvConstant(cv), F32Sqrt(U32ToF32(U32(n)))))

\* (a variant that divides by n, without the square root)
critical_value_over_n(cv, n) ==
    IF n < CvMinN THEN None
    ELSE Some(F32Div(CvConstant(cv), U32ToF32(U32(n))))

critical_value(cv, n) ==
    IF n < CvMinN THEN None
    ELSE Some(F32Div(CvConstant(cv), F32Sqrt(U32ToF32(U32(n)))))

\* the sample sizes critical_value is called with
CvBases == {100, 1000, 10000, 100000}
CvSizes ==
    0..(CvMinN + CvSpan)
    \cup UNION {b..(b + CvSpan) : b \in CvBases}
    \cup (MaxN - CvSpan)..MaxN

NoCall == [level |-> "none", n |-> 0, result |-> None]

\* a caller calls critical_value(level1, n1) ...
CriticalValueFirst ==
    /\ cv_prev = NoCall
    /\ cv_prev' = [level |-> cv_args.level1, n |-> cv_args.n1,
                   result |-> critical_value(cv_args.level1, cv_args.n1)]
    /\ UNCHANGED <<fn_vars,
                   cv_args, cv_last, hist_vars, ks_vars, run, dist_vars,
                 ord_vars, rule_vars, cdf_vars, conv_vars>>

\* ... and then critical_value(level2, n2)
CriticalValueSecond ==
    /\ cv_prev # NoCall
    /\ cv_last = NoCall
    /\ cv_last' = [level |-> cv_args.level2, n |-> cv_args.n2,
                   result |-> critical_value(cv_args.level2, cv_args.n2)]
    /\ UNCHANGED <<fn_vars,
                   cv_args, cv_prev, hist_vars, ks_vars, run, dist_vars,
                 ord_vars, rule_vars, cdf_vars, conv_vars>>

(***************************************************************************)
(* sample.rs, distribution.rs: normalize_variable, ks.rs: statistic        *)
(***************************************************************************)
\* a - b on u32 for a >= b
U32Sub(a, b) ==
    IF a[2] >= b[2] THEN <<a[1] - b[1], a[2] - b[2]>>
    ELSE <<a[1] - b[1] - 1, a[2] + 2^16 - b[2]>>

\* a < b, a = b on u32
U32Lt(a, b) == a[1] < b[1] \/ (a[1] = b[1] /\ a[2] < b[2])

\* a - b on u32 in a build without overflow checks: a - b + 2^32 for a < b
U32WrappingSub(a, b) ==
    IF U32Lt(a, b)
    THEN LET below == U32Sub(U32_MAX, U32Sub(b, a))
         IN  IF below[2] = 2^16 - 1 THEN <<below[1] + 1, 0>>
             ELSE <<below[1], below[2] + 1>>
    ELSE U32Sub(a, b)

\* Ord::cmp of Sample<f32>, f32::total_cmp: -1 (Less), 0 (Equal), 1 (Greater)
\* (a variant built on the partial order, Equal where that gives no ordering)
SampleCmpPartialOrEqual(x, y) ==
    IF F32Lt(x, y) THEN -1 ELSE IF F32Gt(x, y) THEN 1 ELSE 0

SampleCmp(x, y) ==
    IF TotalKey(x) < TotalKey(y) THEN -1
    ELSE IF TotalKey(x) > TotalKey(y) THEN 1 ELSE 0

\* (a variant that puts x before the first element that compares Less)
InsertSortedDescending(q, x) ==
    LET less == {j \in 1..Len(q) : SampleCmp(q[j], x) = -1}
        at == IF less = {} THEN Len(q) + 1
              ELSE CHOOSE j \in less : \A k \in less : j <= k
    IN  SubSeq(q, 1, at - 1) \o <<x>> \o SubSeq(q, at, Len(q))

\* x put into the sorted q, before the first element that compares Greater
\* than x and so after the elements equal to it
InsertSorted(q, x) ==
    LET greater == {j \in 1..Len(q) : SampleCmp(q[j], x) = 1}
        at == IF greater = {} THEN Len(q) + 1
              ELSE CHOOSE j \in greater : \A k \in greater : j <= k
    IN  SubSeq(q, 1, at - 1) \o <<x>> \o SubSeq(q, at, Len(q))

\* samples.sort(): the stable sort of the samples by Ord::cmp, here the
\* samples q[lo..hi] inserted one by one, in their order, into the sorted acc.
\* (The result of the lower half of the range is bound as the one element of
\* a set, so that it is a value before the upper half is entered.)
RECURSIVE SortSamplesFrom(_, _, _, _)
SortSamplesFrom(q, lo, hi, acc) ==
    IF lo > hi THEN acc
    ELSE IF lo = hi
    THEN CHOOSE sorted \in {InsertSorted(acc, x) : x \in {q[lo]}} : TRUE
    ELSE LET mid == (lo + hi) \div 2
         IN  CHOOSE sorted \in
                 { SortSamplesFrom(q, mid + 1, hi, lower) :
                     lower \in {SortSamplesFrom(q, lo, mid, acc)} } : TRUE

\* (a variant that leaves the samples in the order given)
Unsorted(q) == q

SortSamples(q) == SortSamplesFrom(q, 1, Len(q), <<>>)

\* normalize_variable(item, parameters); for parameters.a > parameters.b the
\* result of the build without overflow checks (the build with them panics
\* at the subtraction)
normalize_variable(item, p) ==
    LET width == F32Div(F32One, U32ToF32(U32WrappingSub(p.b, p.a)))
    IN  F32Mul(F32Sub(item, U32ToF32(p.a)), width)

\* shifted_uniform_cdf_distribution(n): minus, the ratios i / n for i in 0..n,
\* and plus, those for i in 1..=n
\* (a variant whose plus sequence also starts from 0, the range 0..n twice)
shifted_plus_from_zero(n) ==
    [minus |-> [k \in 1..n |-> F32Div(U32ToF32(U32(k - 1)), U32ToF32(U32(n)))],
     plus  |-> [k \in 1..n |-> F32Div(U32ToF32(U32(k - 1)), U32ToF32(U32(n)))]]

\* (a variant that adds the step 1 / n up instead of dividing at each index)
RECURSIVE AccumulatedSteps(_, _, _)
AccumulatedSteps(step, k, acc) ==
    IF k = 0 THEN acc ELSE AccumulatedSteps(step, k - 1, F32Add(acc, step))
shifted_accumulated(n) ==
    LET step == F32Div(F32One, U32ToF32(U32(n)))
    IN  [minus |-> [k \in 1..n |-> AccumulatedSteps(step, k - 1, F32Zero(0))],
         plus  |-> [k \in 1..n |-> AccumulatedSteps(step, k, F32Zero(0))]]

\* (a variant whose minus sequence also starts from 1, the range 1..=n twice)
shifted_minus_from_one(n) ==
    [minus |-> [k \in 1..n |-> F32Div(U32ToF32(U32(k)), U32ToF32(U32(n)))],
     plus  |-> [k \in 1..n |-> F32Div(U32ToF32(U32(k)), U32ToF32(U32(n)))]]

shifted_uniform_cdf_distribution(n) ==
    [minus |-> [k \in 1..n |-> F32Div(U32ToF32(U32(k - 1)), U32ToF32(U32(n)))],
     plus  |-> [k \in 1..n |-> F32Div(U32ToF32(U32(k)), U32ToF32(U32(n)))]]

\* (a variant of the loop that keeps the difference of the last index instead
\* of the greatest)
LastDifference(cdf, interpolated_values, lo, hi, max) ==
    IF lo > hi THEN max
    ELSE F32Abs(F32Sub(cdf[hi], interpolated_values[hi]))

\* one of the two loops `for i in 0..n` of statistic over the indices lo..hi,
\* entered with the running maximum max: the maximum is replaced only by a
\* greater |cdf[i] - interpolated_values[i]|.  The indices are visited in
\* ascending order, the lower half of the range before the upper half.
RECURSIVE MaxDifference(_, _, _, _, _)
MaxDifference(cdf, interpolated_values, lo, hi, max) ==
    IF lo > hi THEN max
    ELSE IF lo = hi
    THEN CHOOSE m \in
             { IF F32Gt(res, max) THEN res ELSE max :
                 res \in {F32Abs(F32Sub(c, v)) :
                             c \in {cdf[lo]},
                             v \in {interpolated_values[lo]}} } : TRUE
    ELSE LET mid == (lo + hi) \div 2
         IN  CHOOSE m \in
                 { MaxDifference(cdf, interpolated_values, mid + 1, hi, lower) :
                     lower \in {MaxDifference(cdf, interpolated_values,
                                              lo, mid, max)} } : TRUE

\* statistic(experiment, parameters).  Each `let` of the code is bound as the
\* one element of a set, in the order of the code: sorted_data, then the two
\* step sequences and interpolated_values, then the two maxima.
statistic(samples, p) ==
    LET Maxima(cdf, interpolated_values, n) ==
            CHOOSE d \in
                { F32Max(minus_max, plus_max) :
                    minus_max \in {MaxDifference(cdf.minus, interpolated_values,
                                                 1, n, F32Zero(0))},
                    plus_max \in {MaxDifference(cdf.plus, interpolated_values,
                                                1, n, F32Zero(0))} } : TRUE
        Sorted(sorted_data, n) ==
            CHOOSE d \in
                { Maxima(cdf, interpolated_values, n) :
                    cdf \in {shifted_uniform_cdf_distribution(n)},
                    interpolated_values \in
                        {[k \in 1..n |->
                            normalize_variable(sorted_data[k], p)]} } : TRUE
    IN  CHOOSE d \in
            { Sorted(sorted_data, Len(sorted_data)) :
                sorted_data \in {SortSamples(samples)} } : TRUE

\* the data of the test statistic_works_psu and of the doc example of statistic
PsuData ==
    << Lit(141, 100), Lit(26, 100), Lit(197, 100), Lit(33, 100),
       Lit(55, 100), Lit(77, 100), Lit(146, 100), Lit(118, 100) >>
DocData ==
    << Lit(188, 100), Lit(10, 100), Lit(155, 100), Lit(89, 100),
       Lit(62, 100), Lit(130, 100), Lit(120, 100), Lit(101, 100) >>

\* the parameters a, b: those of the tests ([0, 2], [1, 3]), a width that is
\* no power of two, the whole u32 domain of the example program, and bounds
\* above 2^24, where `as f32` rounds
KsParameters ==
    { [a |-> <<0, 0>>, b |-> <<0, 2>>],
      [a |-> <<0, 1>>, b |-> <<0, 3>>],
      [a |-> <<0, 0>>, b |-> <<0, 3>>],
      [a |-> <<0, 0>>, b |-> U32_MAX],
      [a |-> <<256, 1>>, b |-> <<256, 2>>] }    \* 2^24 + 1, 2^24 + 2

\* the samples: 0, 0.5, 1, 2, 3, 2^24 + 2 and 2^32 - 256
KsSamples ==
    { F32Zero(0), Lit(1, 2), F32One, Lit(2, 1), Lit(3, 1),
      U32ToF32(<<256, 2>>), U32ToF32(<<65535, 65280>>) }

KsExperiments == SeqsUpTo(KsSamples, MaxKsSamples) \cup {PsuData, DocData}

\* a caller calls statistic(experiment, &parameters)
Statistic ==
    /\ ks_statistic = None
    /\ ks_statistic' = Some(statistic(experiment_f32, parameters))
    /\ UNCHANGED <<fn_vars,
                   experiment_f32, parameters, hist_vars, cv_vars, run,
                 dist_vars, ord_vars, rule_vars, cdf_vars, conv_vars>>

\* statistic on any input: samples that are NaN, infinite or negative, and
\* parameters with a = b and a > b
AnySamples ==
    { F32NaN, F32(1, 255, 1), F32Inf(0), F32Inf(1), F32(1, 127, 0),
      F32Zero(0), F32One, Lit(2, 1) }

AnyParameters ==
    { [a |-> <<0, 0>>, b |-> <<0, 2>>],
      [a |-> <<0, 1>>, b |-> <<0, 3>>],
      [a |-> <<0, 0>>, b |-> <<0, 0>>],
      [a |-> <<0, 2>>, b |-> <<0, 2>>],
      [a |-> <<0, 3>>, b |-> <<0, 1>>],
      [a |-> U32_MAX, b |-> <<0, 0>>] }

\* most samples of an experiment drawn from AnySamples
MaxAnySamples == 3

AnyExperiments == SeqsUpTo(AnySamples, MaxAnySamples)

\* the call did not return: `attempt to subtract with overflow`
Panicked == [some |-> FALSE, panicked |-> TRUE]

\* statistic(experiment, &parameters) in a build with overflow checks, given
\* a > b and at least one sample: normalize_variable panics at b - a
StatisticPanics ==
    /\ ks_statistic = None
    /\ U32Lt(parameters.b, parameters.a)
    /\ experiment_f32 # <<>>
    /\ ks_statistic' = Panicked
    /\ UNCHANGED <<fn_vars,
                   experiment_f32, parameters, hist_vars, cv_vars, run,
                   dist_vars, ord_vars, rule_vars, cdf_vars, conv_vars>>

(***************************************************************************)
(* experiment.rs: Experiment::run, and the collaborators it drives         *)
(***************************************************************************)
\* The checksum behind `&mut dyn Checksum<u32>`: Adler-32, the checksum of the
\* tests and of the example.  Its state is the u32 (b << 16) | a, here <<b, a>>.
AdlerModulus == 65521
ChecksumInitial == <<0, 1>>
ChecksumUpdate(c, byte) ==
    LET a == (c[2] + byte) % AdlerModulus
    IN  <<(c[1] + a) % AdlerModulus, a>>

\* the state after compute(data) from state c; compute returns that state
RECURSIVE ChecksumCompute(_, _)
ChecksumCompute(c, data) ==
    IF data = <<>> THEN c
    ELSE ChecksumCompute(ChecksumUpdate(c, Head(data)), Tail(data))

ChecksumReset(c) == ChecksumInitial

\* The accumulator update behind the distribution (CRC::update in
\* DiscreteUniformDistribution), as a fixed mixing function of u32 and byte
PrngUpdate(state, byte) ==
    << (state[2] * 31 + byte * 257 + 12345) % 2^16,
       (state[1] * 17 + state[2] + byte + 1) % 2^16 >>

\* DiscreteUniformDistribution::sample: the accumulator updated with its own
\* top byte, which is also the sample returned
DistributionSample(state) == PrngUpdate(state, state[1] \div 2^8)

\* `(last >> 24) as u8`
TopByte(last) == last[1] \div 2^8

Runs == {1, 2}

\* distribution and checksum states a caller may pass in: a checksum freshly
\* built, and one that has already been fed the byte 200
PrngStates == { <<4660, 22136>>, <<65535, 65535>> }
ChecksumStates == { ChecksumInitial, ChecksumUpdate(ChecksumInitial, 200) }

\* a call of run(prng, checksum, message_size, num_experiments) at its entry
RunEntry(prng, checksum, message_size, num_experiments) ==
    [ pc |-> "entry",
      prng |-> prng, checksum |-> checksum,
      message_size |-> message_size, num_experiments |-> num_experiments,
      random_buffer |-> <<>>, experiments |-> <<>>,
      i |-> 0, item |-> 0, result |-> <<0, 0>>,
      returned |-> None,
      \* history: the arguments at entry, the samples drawn, the checksum calls
      prng_at_entry |-> prng, checksum_at_entry |-> checksum,
      drawn |-> <<>>, calls |-> <<>> ]

\* the position at the head of the loop `for i in 0..num_experiments`
\* (a variant that tests the bound after the first iteration only)
LoopHeadAfterFirst(i, num_experiments) ==
    IF i = 0 \/ i < num_experiments THEN "fill" ELSE "return"

LoopHead(i, num_experiments) ==
    IF i < num_experiments THEN "fill" ELSE "return"

\* lines 25-26: the two vec![0; n] allocations
AllocateStep(r) ==
    [run EXCEPT
        ![r].random_buffer = [k \in 1..run[r].message_size |-> 0],
        ![r].experiments = [k \in 1..run[r].num_experiments |-> <<0, 0>>],
        ![r].i = 0,
        ![r].item = 0,
        ![r].pc = LoopHead(0, run[r].num_experiments)]

\* lines 32-35, one iteration of `for item in &mut random_buffer`
\* (a variant in which every call draws from one shared distribution)
SampleStepShared(r) ==
    LET last == DistributionSample(run[1].prng)
    IN  [run EXCEPT
            ![1].prng = last,
            ![r].drawn = Append(@, last),
            ![r].random_buffer[run[r].item + 1] = TopByte(last),
            ![r].item = @ + 1]

\* (a variant that stores the least-significant byte of the sample)
SampleStepLowByte(r) ==
    LET last == DistributionSample(run[r].prng)
    IN  [run EXCEPT
            ![r].prng = last,
            ![r].drawn = Append(@, last),
            ![r].random_buffer[run[r].item + 1] = last[2] % 2^8,
            ![r].item = @ + 1]

SampleStep(r) ==
    LET last == DistributionSample(run[r].prng)
    IN  [run EXCEPT
            ![r].prng = last,
            ![r].drawn = Append(@, last),
            ![r].random_buffer[run[r].item + 1] = TopByte(last),
            ![r].item = @ + 1]

\* line 37: let result = checksum.compute(&random_buffer)
ComputeStep(r) ==
    LET after == ChecksumCompute(run[r].checksum, run[r].random_buffer)
    IN  [run EXCEPT
            ![r].checksum = after,
            ![r].result = after,
            ![r].calls = Append(@, [op |-> "compute",
                                    from |-> run[r].checksum,
                                    message |-> run[r].random_buffer,
                                    result |-> after]),
            ![r].pc = "reset"]

\* line 38: checksum.reset()
\* (a variant without the call of reset)
ResetStepForgotten(r) == [run EXCEPT ![r].pc = "store"]

ResetStep(r) ==
    [run EXCEPT
        ![r].checksum = ChecksumReset(@),
        ![r].calls = Append(@, [op |-> "reset"]),
        ![r].pc = "store"]

\* line 40: experiments[i as usize] = result, and the next iteration
\* (a variant that stores every result in experiments[0])
StoreStepFirstSlot(r) ==
    [run EXCEPT
        ![r].experiments[1] = run[r].result,
        ![r].i = @ + 1,
        ![r].item = 0,
        ![r].pc = LoopHead(run[r].i + 1, run[r].num_experiments)]

StoreStep(r) ==
    [run EXCEPT
        ![r].experiments[run[r].i + 1] = run[r].result,
        ![r].i = @ + 1,
        ![r].item = 0,
        ![r].pc = LoopHead(run[r].i + 1, run[r].num_experiments)]

\* lines 43-45: the Experiment returned
ReturnStep(r) ==
    [run EXCEPT
        ![r].returned = Some(run[r].experiments),
        ![r].pc = "done"]

\* the variables Experiment::run leaves alone
RunFrame ==
    UNCHANGED <<fn_vars,
                hist_vars, cv_vars, ks_vars, dist_vars, ord_vars, rule_vars,
                cdf_vars, conv_vars>>

Allocate ==
    \E r \in Runs :
        /\ run[r].pc = "entry"
        /\ run' = AllocateStep(r)
        /\ RunFrame
Sample ==
    \E r \in Runs :
        /\ run[r].pc = "fill"
        /\ run[r].item < run[r].message_size
        /\ run' = SampleStep(r)
        /\ RunFrame
Compute ==
    \E r \in Runs :
        /\ run[r].pc = "fill"
        /\ run[r].item = run[r].message_size
        /\ run' = ComputeStep(r)
        /\ RunFrame
Reset ==
    \E r \in Runs :
        /\ run[r].pc = "reset"
        /\ run' = ResetStep(r)
        /\ RunFrame
Store ==
    \E r \in Runs :
        /\ run[r].pc = "store"
        /\ run' = StoreStep(r)
        /\ RunFrame
Return ==
    \E r \in Runs :
        /\ run[r].pc = "return"
        /\ run' = ReturnStep(r)
        /\ RunFrame

(***************************************************************************)
(* distribution.rs, rand_distribution.rs: the two Distribution<u32>        *)
(***************************************************************************)
DistributionKinds ==
    {"DiscreteUniformDistribution", "RandDiscreteUniformDistribution"}

NoDistribution == [kind |-> "none"]

\* a <= b on u32
U32Le(a, b) == ~U32Lt(b, a)

\* the arguments a and b of new: both ends of the domain, small values, the
\* two sides of 2^16
DistributionBounds ==
    { <<0, 0>>, <<0, 1>>, <<0, 3>>, <<0, 65535>>, <<1, 0>>, U32_MAX }

\* `(t % (u32::MAX as u128 + 1)) as u32` of the clock's milliseconds: any u32
Seeds == { <<0, 0>>, <<4660, 22136>>, <<43981, 61185>>, U32_MAX }

\* DiscreteUniformDistribution::new(a, b) at a time that gives `seed`: the
\* parameters as given and a CRC whose accumulator starts from the seed
DiscreteUniformDistributionNew(a, b, seed) ==
    [ kind |-> "DiscreteUniformDistribution",
      a |-> a, b |-> b, state |-> seed,
      samples |-> <<>>, states |-> <<seed>>, panicked |-> FALSE ]

\* RandDiscreteUniformDistribution::new(a, b): the fields as given and the
\* thread's generator, whose state is the number of values drawn from it
RandDiscreteUniformDistributionNew(a, b) ==
    [ kind |-> "RandDiscreteUniformDistribution",
      a |-> a, b |-> b, state |-> 0,
      samples |-> <<>>, states |-> <<0>>, panicked |-> FALSE ]

\* DiscreteUniformDistribution::sample on d: the accumulator updated with its
\* own top byte is the new state and the sample
\* (a variant that feeds the byte to the update twice in one call)
DiscreteUniformDistributionSampleTwice(d) ==
    LET byte == d.state[1] \div 2^8
        last == PrngUpdate(PrngUpdate(d.state, byte), byte)
    IN  [d EXCEPT !.state = last,
                  !.samples = Append(@, last),
                  !.states = Append(@, last)]

DiscreteUniformDistributionSample(d) ==
    LET last == DistributionSample(d.state)
    IN  [d EXCEPT !.state = last,
                  !.samples = Append(@, last),
                  !.states = Append(@, last)]

\* the values gen_range(a..=b) may give: any of [a, b]; here its two ends
\* and the values of DistributionBounds between them
GenRange(a, b) ==
    {v \in DistributionBounds \cup {a, b} : U32Le(a, v) /\ U32Le(v, b)}

\* RandDiscreteUniformDistribution::sample on d giving v; gen_range panics on
\* the empty range of a > b
RandDiscreteUniformDistributionSample(d, v) ==
    IF U32Lt(d.b, d.a) THEN [d EXCEPT !.panicked = TRUE]
    ELSE [d EXCEPT !.state = @ + 1,
                   !.samples = Append(@, v),
                   !.states = Append(@, d.state + 1)]

\* most calls of sample on one distribution
MaxDraws == 3

DistributionFrame ==
    UNCHANGED <<fn_vars,
                hist_vars, cv_vars, ks_vars, run, ord_vars, rule_vars,
                cdf_vars, conv_vars>>

\* a caller calls DiscreteUniformDistribution::new(a, b)
NewDiscreteUniformDistribution ==
    \E a \in DistributionBounds, b \in DistributionBounds, seed \in Seeds :
        /\ distribution = NoDistribution
        /\ distribution' = DiscreteUniformDistributionNew(a, b, seed)
        /\ DistributionFrame

\* a caller calls RandDiscreteUniformDistribution::new(a, b)
NewRandDiscreteUniformDistribution ==
    \E a \in DistributionBounds, b \in DistributionBounds :
        /\ distribution = NoDistribution
        /\ distribution' = RandDiscreteUniformDistributionNew(a, b)
        /\ DistributionFrame

\* a caller calls sample() on the distribution it constructed
SampleDiscreteUniformDistribution ==
    /\ distribution.kind = "DiscreteUniformDistribution"
    /\ Len(distribution.samples) < MaxDraws
    /\ distribution' = DiscreteUniformDistributionSample(distribution)
    /\ DistributionFrame

SampleRandDiscreteUniformDistribution ==
    /\ distribution.kind = "RandDiscreteUniformDistribution"
    /\ Len(distribution.samples) < MaxDraws
    /\ ~distribution.panicked
    /\ \E v \in GenRange(distribution.a, distribution.b) \cup {distribution.a} :
          distribution' = RandDiscreteUniformDistributionSample(distribution, v)
    /\ DistributionFrame

(***************************************************************************)
(* sample.rs: PartialEq, PartialOrd and Ord of Sample<f32>                 *)
(***************************************************************************)
\* PartialEq::eq and the != derived from it
\* (a variant of eq that compares the bits)
SampleEqByBits(x, y) == x = y

SampleEq(x, y) == F32Eq(x, y)
SampleNe(x, y) == ~SampleEq(x, y)

\* PartialOrd::lt, le, gt, ge: the operators of the wrapped f32
\* (a variant of lt that asks Ord::cmp)
SampleLtByCmp(x, y) == SampleCmp(x, y) = -1

SampleLt(x, y) == F32Lt(x, y)
SampleLe(x, y) == F32Le(x, y)
SampleGt(x, y) == F32Gt(x, y)
SampleGe(x, y) == F32Le(y, x)

\* PartialOrd::partial_cmp, f32::partial_cmp: decided by <= and >=
SamplePartialCmp(x, y) ==
    LET le == F32Le(x, y)
        ge == F32Le(y, x)
    IN  IF ~le /\ ~ge THEN None
        ELSE IF ~le THEN Some(1)
        ELSE IF ~ge THEN Some(-1)
        ELSE Some(0)

\* the f32 values compared: NaNs of both signs and two payloads, the
\* infinities, the largest and the smallest finite magnitudes, both zeros,
\* and the 0.01 and 0.03 of the tests
OrdValues ==
    { F32(1, 255, 2^22), F32(1, 255, 1), F32Inf(1), F32(1, 254, 2^23 - 1),
      F32(1, 127, 0), F32(1, 0, 1), F32Zero(1), F32Zero(0), F32(0, 0, 1),
      Lit(1, 100), Lit(3, 100), F32One, F32(0, 254, 2^23 - 1), F32Inf(0),
      F32(0, 255, 1), F32(0, 255, 2^22) }

NoComparison == [called |-> FALSE]

OrdFrame ==
    UNCHANGED <<fn_vars,
                hist_vars, cv_vars, ks_vars, run, dist_vars, rule_vars,
                cdf_vars, conv_vars>>

\* a caller compares the samples x, y and z with Ord::cmp
Cmp ==
    /\ ~ord_result.total.called
    /\ ord_result' =
         [ord_result EXCEPT !.total =
            [ called |-> TRUE,
              xy |-> SampleCmp(ord_args.x, ord_args.y),
              yx |-> SampleCmp(ord_args.y, ord_args.x),
              yz |-> SampleCmp(ord_args.y, ord_args.z),
              xz |-> SampleCmp(ord_args.x, ord_args.z) ]]
    /\ UNCHANGED ord_args
    /\ OrdFrame

\* a caller applies ==, !=, <, <=, >, >= and partial_cmp to x and y
PartialCmp ==
    /\ ~ord_result.partial.called
    /\ ord_result' =
         [ord_result EXCEPT !.partial =
            [ called |-> TRUE,
              eq |-> SampleEq(ord_args.x, ord_args.y),
              ne |-> SampleNe(ord_args.x, ord_args.y),
              lt |-> SampleLt(ord_args.x, ord_args.y),
              le |-> SampleLe(ord_args.x, ord_args.y),
              gt |-> SampleGt(ord_args.x, ord_args.y),
              ge |-> SampleGe(ord_args.x, ord_args.y),
              partial_cmp |-> SamplePartialCmp(ord_args.x, ord_args.y) ]]
    /\ UNCHANGED ord_args
    /\ OrdFrame

(***************************************************************************)
(* examples/adler32_output_space_use.rs: perform_ks_test, and the test     *)
(* test_works of ks.rs: the decision built on statistic and critical_value *)
(***************************************************************************)
\* longest Experiment<u32> given to perform_ks_test
MaxRuleSamples == 44

\* the experiments tested, of every length up to MaxRuleSamples: every sample
\* 0, the samples spread evenly over the u32 domain (sample i is
\* floor(i * 2^32 / n)), and the samples spread over its upper half
RuleSpread(i, n) ==
    <<(i * 2^16) \div n, (((i * 2^16) % n) * 2^16) \div n>>
RuleExperiments ==
    UNION { { [i \in 1..n |-> <<0, 0>>],
              [i \in 1..n |-> RuleSpread(i - 1, n)],
              [i \in 1..n |-> RuleSpread(n + i - 1, 2 * n)] }
            : n \in 0..MaxRuleSamples }

NoKsTest(e) ==
    [ experiment |-> e, by |-> "none", n |-> 0,
      statistic |-> F32Zero(0), crit_val |-> None, line |-> "none" ]

\* lines 43-56 of perform_ks_test: the line printed for statistic and crit_val
\* (a variant that falls back on the tabulated 0.410 where there is no
\* critical value)
ReportWithFallback(stat, crit_val) ==
    LET cv == IF crit_val.some THEN crit_val.v ELSE Lit(410, 1000)
    IN  IF F32Lt(stat, cv) THEN "no,  data follows a uniform distribution"
        ELSE "yes, data does not follow a uniform distribution"

Report(stat, crit_val) ==
    IF crit_val.some
    THEN IF F32Lt(stat, crit_val.v)
         THEN "no,  data follows a uniform distribution"
         ELSE "yes, data does not follow a uniform distribution"
    ELSE "Invalid sample size"

\* perform_ks_test(name, experiment)
perform_ks_test(e) ==
    LET experiment_f32_ == [i \in 1..Len(e) |-> U32ToF32(e[i])]
        parameters_ == [a |-> <<0, 0>>, b |-> U32_MAX]
        n == Len(e)
    IN  CHOOSE t \in
            { [ experiment |-> e, by |-> "perform_ks_test", n |-> n,
                statistic |-> stat, crit_val |-> crit_val,
                line |-> Report(stat, crit_val) ] :
                  stat \in {statistic(experiment_f32_, parameters_)},
                  crit_val \in {critical_value("FivePercent", n)} } : TRUE

\* lines 250-259 of the test test_works: its critical value is the tabulated
\* Some(0.410), its assertion is statistic < cv
TestWorksReport(stat, crit_val) ==
    IF crit_val.some
    THEN IF ~F32Lt(stat, crit_val.v) THEN "assertion failed"
         ELSE IF F32Lt(stat, crit_val.v)
              THEN "Data follows a uniform distribution"
              ELSE "Data does not follow a uniform distribution"
    ELSE "assertion failed"

\* the test test_works
test_works(e) ==
    CHOOSE t \in
        { [ experiment |-> e, by |-> "test_works", n |-> Len(PsuData),
            statistic |-> stat, crit_val |-> crit_val,
            line |-> TestWorksReport(stat, crit_val) ] :
              stat \in {statistic(PsuData, [a |-> <<0, 0>>, b |-> <<0, 2>>])},
              crit_val \in {Some(Lit(410, 1000))} } : TRUE

RuleFrame ==
    UNCHANGED <<fn_vars,
                hist_vars, cv_vars, ks_vars, run, dist_vars, ord_vars,
                cdf_vars, conv_vars>>

\* main calls perform_ks_test on an experiment
PerformKsTest ==
    /\ ks_test.by = "none"
    /\ ks_test' = perform_ks_test(ks_test.experiment)
    /\ RuleFrame

\* the test test_works runs
TestWorks ==
    /\ ks_test.by = "none"
    /\ ks_test' = test_works(ks_test.experiment)
    /\ RuleFrame

(***************************************************************************)
(* ks.rs: shifted_uniform_cdf_distribution called on its own, and its two  *)
(* tests test_shifted_uniform_cdf_distribution_fp_*                        *)
(***************************************************************************)
\* largest n of the calls whose whole result is kept
MaxCdfN == 100

\* `let n: usize = 100000` of the two tests
CdfTestN == 100000

NotRun == [done |-> FALSE]
NoCdf == [result |-> NotRun, error_propagation |-> NotRun,
          expected_mean |-> NotRun]

\* `for s in &v { total += *s as f32 }` over v[lo..hi], entered with total
RECURSIVE SumF32(_, _, _, _)
SumF32(v, lo, hi, total) ==
    IF lo > hi THEN total
    ELSE IF lo = hi THEN F32Add(total, v[lo])
    ELSE LET mid == (lo + hi) \div 2
         IN  CHOOSE sum \in
                 { SumF32(v, mid + 1, hi, lower) :
                     lower \in {SumF32(v, lo, mid, total)} } : TRUE

\* test_shifted_uniform_cdf_distribution_fp_error_propagation: the two values
\* its assertions compare with 0.99999 and 1.0
test_fp_error_propagation(n) ==
    LET r == shifted_uniform_cdf_distribution(n)
    IN  [ done |-> TRUE, n |-> n,
          ucm_last |-> r.minus[n], ucp_last |-> r.plus[n] ]

\* test_shifted_uniform_cdf_distribution_fp_expected_mean: the two means, and
\* the value its assertion compares with 0.000001
test_fp_expected_mean(n) ==
    LET r == shifted_uniform_cdf_distribution(n)
        ucm_mean == F32Div(SumF32(r.minus, 1, n, F32Zero(0)), U32ToF32(U32(n)))
        ucp_mean == F32Div(SumF32(r.plus, 1, n, F32Zero(0)), U32ToF32(U32(n)))
    IN  [ done |-> TRUE, n |-> n,
          ucm_mean |-> ucm_mean, ucp_mean |-> ucp_mean,
          distance |-> F32Abs(F32Sub(F32Div(F32Add(ucm_mean, ucp_mean),
                                            Lit(2, 1)),
                                     Lit(1, 2))) ]

CdfFrame ==
    UNCHANGED <<fn_vars,
                hist_vars, cv_vars, ks_vars, run, dist_vars, ord_vars,
                rule_vars, conv_vars>>

\* a caller calls shifted_uniform_cdf_distribution(n)
ShiftedUniformCdfDistribution ==
    /\ cdf_n <= MaxCdfN
    /\ ~cdf_out.result.done
    /\ cdf_out' = [cdf_out EXCEPT !.result =
                  [done |-> TRUE, n |-> cdf_n,
                   v |-> shifted_uniform_cdf_distribution(cdf_n)]]
    /\ UNCHANGED cdf_n
    /\ CdfFrame

\* the two tests run
TestFpErrorPropagation ==
    /\ cdf_n = CdfTestN
    /\ ~cdf_out.error_propagation.done
    /\ cdf_out' = [cdf_out EXCEPT !.error_propagation = test_fp_error_propagation(cdf_n)]
    /\ UNCHANGED cdf_n
    /\ CdfFrame

TestFpExpectedMean ==
    /\ cdf_n = CdfTestN
    /\ ~cdf_out.expected_mean.done
    /\ cdf_out' = [cdf_out EXCEPT !.expected_mean = test_fp_expected_mean(cdf_n)]
    /\ UNCHANGED cdf_n
    /\ CdfFrame

(***************************************************************************)
(* The conversions of sample counts and bin indices: histogram.rs lines 81 *)
(* and 87, experiment.rs lines 25-26, ks.rs lines 123-126                  *)
(***************************************************************************)
\* A usize count is <<top, hi, lo>>, the number top * 2^32 + hi * 2^16 + lo.
\* the lengths of the experiments converted: around 0, 41, 2^16, 2^32 and
\* 2^33, and from 2^48 on
UsizeCounts ==
    { <<top, hi, lo>> : top \in {0, 1, 2, 65536}, hi \in {0, 1, 65535},
                        lo \in {0, 1, 41, 65535} }

\* the u32 arguments message_size and num_experiments of Experiment::run
U32Counts == { <<hi, lo>> : hi \in {0, 1, 65535}, lo \in {0, 1, 50, 1000, 65535} }

\* usize::try_into::<u32>(): Err when the count is 2^32 or more
UsizeTryIntoU32(len) ==
    IF len[1] = 0 THEN Some(<<len[2], len[3]>>) ELSE None

\* `len as u32`: the low 32 bits
UsizeAsU32(len) == <<len[2], len[3]>>

\* u32::try_into::<usize>(): every u32 is a usize
U32TryIntoUsize(v) == Some(<<0, v[1], v[2]>>)

\* a < b on usize
UsizeLt(a, b) ==
    \/ a[1] < b[1]
    \/ a[1] = b[1] /\ U32Lt(<<a[2], a[3]>>, <<b[2], b[3]>>)

NoConv == [op |-> "none"]

\* line 87 of SimpleHistogram::new on an experiment of len samples that are
\* all binned: experiment.samples.len().try_into().unwrap()
HistogramCountConversion(len) ==
    LET r == UsizeTryIntoU32(len)
    IN  IF r.some
        THEN [ op |-> "SimpleHistogram::new", count |-> len,
               outcome |-> "ok", value |-> <<0, r.v[1], r.v[2]>>,
               wrapped_used |-> FALSE ]
        ELSE [ op |-> "SimpleHistogram::new", count |-> len,
               outcome |-> "panic", value |-> <<0, 0, 0>>,
               wrapped_used |-> FALSE ]

\* lines 25-26 of Experiment::run: vec![0; count.try_into().unwrap()]
RunCountConversion(v) ==
    LET r == U32TryIntoUsize(v)
    IN  [ op |-> "Experiment::run", count |-> <<0, v[1], v[2]>>,
          outcome |-> "ok", value |-> r.v, wrapped_used |-> FALSE ]

\* lines 123-149 of statistic on an experiment of len samples: `n as u32` is
\* given to shifted_uniform_cdf_distribution, whose two vectors get that
\* many elements, and the loops `for i in 0..n` index them up to n - 1: the
\* first index past the vectors panics
StatisticCountConversion(len) ==
    LET n == len
        n_as_u32 == UsizeAsU32(n)
        cdf_len == <<0, n_as_u32[1], n_as_u32[2]>>
    IN  [ op |-> "statistic", count |-> len,
          outcome |-> IF UsizeLt(cdf_len, n) THEN "panic" ELSE "ok",
          value |-> cdf_len,
          wrapped_used |-> cdf_len # n ]

\* line 81 of SimpleHistogram::new: bins[bin as usize] += 1 for the bin of
\* one sample, bins having num_bins elements
BinIndexConversion(sample, num_bins) ==
    LET bin_boundary == F32Div(U32ToF32(U32(num_bins)), U32ToF32(U32_MAX))
        bin == BinOf(sample, bin_boundary)
    IN  [ op |-> "bins[bin as usize]", count |-> <<0, 0, num_bins>>,
          outcome |-> IF bin >= num_bins THEN "panic" ELSE "ok",
          value |-> <<0, 0, bin>>,
          wrapped_used |-> FALSE ]

ConvFrame ==
    UNCHANGED <<fn_vars,
                hist_vars, cv_vars, ks_vars, run, dist_vars, ord_vars,
                rule_vars, cdf_vars>>

\* SimpleHistogram::new converts the length of its experiment
ConvertHistogramCount ==
    \E len \in UsizeCounts :
        /\ conv' = HistogramCountConversion(len)
        /\ ConvFrame

\* Experiment::run converts message_size or num_experiments
ConvertRunCount ==
    \E v \in U32Counts :
        /\ conv' = RunCountConversion(v)
        /\ ConvFrame

\* statistic converts the length of its experiment
ConvertStatisticCount ==
    \E len \in UsizeCounts :
        /\ conv' = StatisticCountConversion(len)
        /\ ConvFrame

\* SimpleHistogram::new indexes bins with the bin of a sample
ConvertBinIndex ==
    \E sample \in HistSamples, num_bins \in HistNumBins \cup {0} :
        /\ conv' = BinIndexConversion(sample, num_bins)
        /\ ConvFrame

(***************************************************************************)
(* distribution.rs: normalize_variable called on its own                   *)
(***************************************************************************)
\* a Vec<Sample<f32>> that has not been sorted
NoSorting(samples) == [samples |-> samples, sorted |-> None]

\* a call of normalize_variable(item, &parameters) that has not returned
NoNorm(item, p) == [item |-> item, parameters |-> p, result |-> None]

\* the parameters a < b: those of the tests ([0, 2], [1, 3]), widths that are
\* no power of two (3, 41), the whole u32 domain, and bounds above 2^24
NormParameters ==
    { [a |-> <<0, 0>>, b |-> <<0, 2>>],
      [a |-> <<0, 1>>, b |-> <<0, 3>>],
      [a |-> <<0, 0>>, b |-> <<0, 3>>],
      [a |-> <<0, 0>>, b |-> <<0, 41>>],
      [a |-> <<0, 7>>, b |-> <<0, 48>>],
      [a |-> <<0, 0>>, b |-> U32_MAX],
      [a |-> <<256, 1>>, b |-> <<256, 2>>] }

\* the items: the values of the tests (1.0, 1.5, 2.5) and the ends `a as f32`
\* and `b as f32` of the parameters
NormItems ==
    { Lit(3, 2), Lit(5, 2), F32One, Lit(1, 2) }
        \cup {U32ToF32(p.a) : p \in NormParameters}
        \cup {U32ToF32(p.b) : p \in NormParameters}

NormFrame ==
    UNCHANGED <<sorting, hist_vars, cv_vars, ks_vars, run, dist_vars,
                ord_vars, rule_vars, cdf_vars, conv_vars>>

\* a caller calls normalize_variable(item, &parameters)
NormalizeVariable ==
    /\ norm.result = None
    /\ norm' = [norm EXCEPT
                   !.result = Some(normalize_variable(norm.item, norm.parameters))]
    /\ NormFrame

(***************************************************************************)
(* sample.rs: sort() of a Vec<Sample<f32>>                                 *)
(***************************************************************************)
\* the data of the test test_f32_sample_ord_works and what it expects
SortTestData ==
    << Lit(123, 100), Lit(85, 100), Lit(162, 100), Lit(31, 100),
       Lit(55, 100), Lit(26, 100), Lit(191, 100), Lit(118, 100) >>
SortTestSorted ==
    << Lit(26, 100), Lit(31, 100), Lit(55, 100), Lit(85, 100),
       Lit(118, 100), Lit(123, 100), Lit(162, 100), Lit(191, 100) >>

\* the values sorted: negative and positive finite values, both zeros, and an
\* infinity and a NaN
SortValues ==
    { F32(1, 254, 2^23 - 1), F32(1, 127, 0), F32Zero(1), F32Zero(0),
      Lit(1, 100), F32One, F32Inf(0), F32NaN }

\* most samples in a vector that is sorted
MaxSortLen == 3

SortInputs == SeqsUpTo(SortValues, MaxSortLen) \cup {SortTestData}

\* a caller calls samples.sort()
Sort ==
    /\ sorting.sorted = None
    /\ sorting' = [sorting EXCEPT !.sorted = Some(SortSamples(sorting.samples))]
    /\ UNCHANGED <<norm, hist_vars, cv_vars, ks_vars, run, dist_vars,
                   ord_vars, rule_vars, cdf_vars, conv_vars>>

(***************************************************************************)
(* Specifications                                                          *)
(***************************************************************************)
HistIdle == experiment_u32 = <<>> /\ histogram = NoHistogram
CvIdle ==
    /\ cv_args = [level1 |-> "TenPercent", n1 |-> 0,
                  level2 |-> "TenPercent", n2 |-> 0]
    /\ cv_prev = NoCall
    /\ cv_last = NoCall

KsIdle ==
    /\ experiment_f32 = <<>>
    /\ parameters = [a |-> <<0, 0>>, b |-> <<0, 2>>]
    /\ ks_statistic = None

RunIdle ==
    run = [r \in Runs |-> RunEntry(<<4660, 22136>>, ChecksumInitial, 0, 0)]

DistIdle == distribution = NoDistribution
NoOrdResult == [total |-> NoComparison, partial |-> NoComparison]
OrdIdle ==
    /\ ord_args = [x |-> F32Zero(0), y |-> F32Zero(0), z |-> F32Zero(0)]
    /\ ord_result = NoOrdResult
RuleIdle == ks_test = NoKsTest(<<>>)
CdfIdle == cdf_n = 0 /\ cdf_out = NoCdf
ConvIdle == conv = NoConv
FnIdle ==
    /\ norm = NoNorm(F32Zero(0), [a |-> <<0, 0>>, b |-> <<0, 2>>])
    /\ sorting = NoSorting(<<>>)

\* SimpleHistogram::new on experiments built by the caller
InitHist ==
    /\ HistIdle /\ CvIdle /\ KsIdle /\ RunIdle
    /\ DistIdle /\ OrdIdle /\ RuleIdle /\ CdfIdle /\ ConvIdle
    /\ FnIdle
NextHist == NewExperimentU32 \/ HistogramNew
SpecHist == InitHist /\ [][NextHist]_vars

\* two calls of critical_value, the second with a sample size no smaller
InitCv ==
    /\ HistIdle
    /\ cv_args \in {a \in [level1 : CriticalValue, n1 : CvSizes,
                            level2 : CriticalValue, n2 : CvSizes] : a.n1 <= a.n2}
    /\ cv_prev = NoCall
    /\ cv_last = NoCall
    /\ KsIdle
    /\ RunIdle
    /\ DistIdle /\ OrdIdle /\ RuleIdle /\ CdfIdle /\ ConvIdle
    /\ FnIdle
NextCv == CriticalValueFirst \/ CriticalValueSecond
SpecCv == InitCv /\ [][NextCv]_vars

\* one call of statistic on an experiment and parameters built by the caller
InitKs ==
    /\ HistIdle
    /\ CvIdle
    /\ experiment_f32 \in KsExperiments
    /\ parameters \in KsParameters
    /\ ks_statistic = None
    /\ RunIdle
    /\ DistIdle /\ OrdIdle /\ RuleIdle /\ CdfIdle /\ ConvIdle
    /\ FnIdle
NextKs == Statistic
SpecKs == InitKs /\ [][NextKs]_vars

\* one call of statistic on any experiment and any parameters
InitKsAny ==
    /\ HistIdle
    /\ CvIdle
    /\ experiment_f32 \in AnyExperiments
    /\ parameters \in AnyParameters
    /\ ks_statistic = None
    /\ RunIdle
    /\ DistIdle /\ OrdIdle /\ RuleIdle /\ CdfIdle /\ ConvIdle
    /\ FnIdle
NextKsAny == Statistic \/ StatisticPanics
SpecKsAny == InitKsAny /\ [][NextKsAny]_vars

\* two calls of Experiment::run, each on its own distribution and checksum,
\* entered with equal arguments and collaborators in equal states, and
\* interleaved in any way
InitRun ==
    /\ HistIdle
    /\ CvIdle
    /\ KsIdle
    /\ \E prng \in PrngStates, checksum \in ChecksumStates,
          message_size \in 0..MaxMessageSize,
          num_experiments \in 0..MaxExperiments :
            run = [r \in Runs |->
                      RunEntry(prng, checksum, message_size, num_experiments)]
    /\ DistIdle /\ OrdIdle /\ RuleIdle /\ CdfIdle /\ ConvIdle
    /\ FnIdle
NextRun == Allocate \/ Sample \/ Compute \/ Reset \/ Store \/ Return
Spec == InitRun /\ [][NextRun]_vars

\* the construction of a distribution of either variant, and calls of sample
InitDist ==
    /\ HistIdle /\ CvIdle /\ KsIdle /\ RunIdle
    /\ DistIdle /\ OrdIdle /\ RuleIdle /\ CdfIdle /\ ConvIdle
    /\ FnIdle
NextDist ==
    \/ NewDiscreteUniformDistribution
    \/ NewRandDiscreteUniformDistribution
    \/ SampleDiscreteUniformDistribution
    \/ SampleRandDiscreteUniformDistribution
SpecDist == InitDist /\ [][NextDist]_vars

\* the comparisons of three Sample<f32> values
InitOrd ==
    /\ HistIdle /\ CvIdle /\ KsIdle /\ RunIdle
    /\ DistIdle /\ RuleIdle /\ CdfIdle /\ ConvIdle
    /\ ord_args \in [x : OrdValues, y : OrdValues, z : OrdValues]
    /\ ord_result = NoOrdResult
    /\ FnIdle
NextOrd == Cmp \/ PartialCmp
SpecOrd == InitOrd /\ [][NextOrd]_vars

\* one KS test of an experiment, or the test test_works
InitRule ==
    /\ HistIdle /\ CvIdle /\ KsIdle /\ RunIdle
    /\ DistIdle /\ OrdIdle /\ CdfIdle /\ ConvIdle
    /\ ks_test \in {NoKsTest(e) : e \in RuleExperiments}
    /\ FnIdle
NextRule == PerformKsTest \/ TestWorks
SpecRule == InitRule /\ [][NextRule]_vars

\* one call of shifted_uniform_cdf_distribution, or its two tests
InitCdf ==
    /\ HistIdle /\ CvIdle /\ KsIdle /\ RunIdle
    /\ DistIdle /\ OrdIdle /\ RuleIdle /\ ConvIdle
    /\ cdf_n \in 0..MaxCdfN \cup {CdfTestN}
    /\ cdf_out = NoCdf
    /\ FnIdle
NextCdf ==
    \/ ShiftedUniformCdfDistribution
    \/ TestFpErrorPropagation
    \/ TestFpExpectedMean
SpecCdf == InitCdf /\ [][NextCdf]_vars

\* the conversions of counts and bin indices
InitConv ==
    /\ HistIdle /\ CvIdle /\ KsIdle /\ RunIdle
    /\ DistIdle /\ OrdIdle /\ RuleIdle /\ CdfIdle /\ ConvIdle
    /\ FnIdle
NextConv ==
    \/ ConvertHistogramCount
    \/ ConvertRunCount
    \/ ConvertStatisticCount
    \/ ConvertBinIndex
SpecConv == InitConv /\ [][NextConv]_vars

\* one call of normalize_variable on an item and parameters a < b
InitNorm ==
    /\ HistIdle /\ CvIdle /\ KsIdle /\ RunIdle
    /\ DistIdle /\ OrdIdle /\ RuleIdle /\ CdfIdle /\ ConvIdle
    /\ norm \in {NoNorm(item, p) : item \in NormItems, p \in NormParameters}
    /\ sorting = NoSorting(<<>>)
NextNorm == NormalizeVariable
SpecNorm == InitNorm /\ [][NextNorm]_vars

\* one sort() of a vector of samples built by the caller
InitSort ==
    /\ HistIdle /\ CvIdle /\ KsIdle /\ RunIdle
    /\ DistIdle /\ OrdIdle /\ RuleIdle /\ CdfIdle /\ ConvIdle
    /\ norm = NoNorm(F32Zero(0), [a |-> <<0, 0>>, b |-> <<0, 2>>])
    /\ sorting \in {NoSorting(samples) : samples \in SortInputs}
NextSort == Sort
SpecSort == InitSort /\ [][NextSort]_vars

(***************************************************************************)
(* Claims                                                                  *)
(***************************************************************************)
\* the number of samples of e equal to v
Count(e, v) == Cardinality({i \in 1..Len(e) : e[i] = v})

\* C1: whatever the experiment and num_bins, SimpleHistogram::new returns a
\* histogram whose bins sum to the number of samples; a sample equal to
\* u32::MAX is counted in the last bin, neither dropped nor indexed out of
\* range.  The code indexes bins[num_bins] for such a sample and panics.
C1_SumOfBinsIsNumDataPoints ==
    histogram.status # "none" =>
        /\ histogram.status = "ok"
        /\ SumSeq(histogram.bins) = Len(experiment_u32)
        /\ histogram.num_data_points = Len(experiment_u32)
        /\ histogram.bins[histogram.num_bins] >= Count(experiment_u32, U32_MAX)

\* the distance of two finite f32 of the same sign in units in the last place
UlpDistance(x, y) ==
    IF TotalKey(x) >= TotalKey(y) THEN TotalKey(x) - TotalKey(y)
    ELSE TotalKey(y) - TotalKey(x)

\* C2: for every n in 0..=40 and each level, critical_value(level, n) is None.
C2_NoneUpTo40 ==
    (cv_last.level # "none" /\ cv_last.n <= 40) => cv_last.result = None

C2_Witness ==
    cv_last.level # "none" /\ cv_last.n = 40 /\ cv_last.result = None

\* C3: for every n in [41, 10^6] and each level, critical_value(level, n) is
\* Some(v) with v > 0, and for a fixed level v strictly decreases as n grows.
C3_PositiveStrictlyDecreasing ==
    (cv_last.level # "none" /\ cv_last.n >= 41 /\ cv_last.n <= MaxN) =>
        /\ cv_last.result.some
        /\ F32Gt(cv_last.result.v, F32Zero(0))
        /\ (/\ cv_prev.level = cv_last.level
            /\ cv_prev.n >= 41
            /\ cv_prev.n < cv_last.n)
           => F32Gt(cv_prev.result.v, cv_last.result.v)

C3_Witness ==
    /\ cv_prev.level = cv_last.level
    /\ cv_prev.n = MaxN - 1
    /\ cv_last.n = MaxN
    /\ F32Gt(cv_prev.result.v, cv_last.result.v)

\* C4: for every n > 40, critical_value(level, n) is c(level) / sqrt(n) with
\* c = 1.07, 1.358 and 1.52 for the 10%, 5% and 1% levels: multiplied back by
\* sqrt(n as f32) the value gives the literal again, to the two roundings
\* made (at most 1 unit in the last place), and squaring sqrt(n as f32)
\* gives n as f32 again to the same precision.
C4_ConstantOverSqrtN ==
    (cv_last.level # "none" /\ cv_last.n > 40) =>
        LET nf   == U32ToF32(U32(cv_last.n))
            root == F32Sqrt(nf)
            c    == CASE cv_last.level = "TenPercent" -> Lit(107, 100)
                      [] cv_last.level = "FivePercent" -> Lit(1358, 1000)
                      [] cv_last.level = "OnePercent" -> Lit(152, 100)
        IN  /\ cv_last.result.some
            /\ UlpDistance(F32Mul(root, root), nf) <= 1
            /\ UlpDistance(F32Mul(cv_last.result.v, root), c) <= 1

C4_Witness ==
    /\ cv_last.level = "FivePercent"
    /\ cv_last.n = 41
    /\ cv_last.result.some
    /\ UlpDistance(F32Mul(cv_last.result.v, F32Sqrt(U32ToF32(U32(41)))),
                   Lit(1358, 1000)) <= 1

\* -1, 0 or 1 as the value of x, not a NaN, is below, at or above the u32 v
\* (exactly: `v as f32` rounds from 2^24 on)
CmpF32U32(x, v) ==
    LET f == U32ToF32(v)
    IN  IF F32Lt(x, f) THEN -1
        ELSE IF F32Gt(x, f) THEN 1
        ELSE IF v[1] < 256 THEN 0
        ELSE LET k  == 16 - Exp(f)
                 xh == Sig(f) \div 2^k
                 xl == (Sig(f) % 2^k) * 2^Exp(f)
             IN  IF xh < v[1] \/ (xh = v[1] /\ xl < v[2]) THEN -1
                 ELSE IF xh = v[1] /\ xl = v[2] THEN 0 ELSE 1

\* every sample of the experiment given to statistic lies in [a, b]
SamplesInRange ==
    \A i \in 1..Len(experiment_f32) :
        /\ ~IsNaN(experiment_f32[i])
        /\ CmpF32U32(experiment_f32[i], parameters.a) >= 0
        /\ CmpF32U32(experiment_f32[i], parameters.b) <= 0

\* C5: for parameters a < b and samples that all lie in [a, b], statistic
\* returns a value in [0, 1].  With a above 2^24 the code's `a as f32` rounds
\* and the normalized sample leaves [0, 1].
C5_StatisticInUnitInterval ==
    (/\ ks_statistic.some
     /\ U32Lt(parameters.a, parameters.b)
     /\ SamplesInRange) =>
        /\ F32Le(F32Zero(0), ks_statistic.v)
        /\ F32Le(ks_statistic.v, F32One)

\* the rearrangements of an experiment that are compared: every permutation
\* of one of up to three samples; of a longer one the reversal, the two
\* rotations and the exchange of the first two samples
Rearrangements(e) ==
    IF Len(e) <= 3
    THEN {[k \in 1..Len(e) |-> e[f[k]]] : f \in Permutations(1..Len(e))}
    ELSE { [k \in 1..Len(e) |-> e[Len(e) + 1 - k]],
           Tail(e) \o <<Head(e)>>,
           <<e[Len(e)]>> \o SubSeq(e, 1, Len(e) - 1),
           <<e[2], e[1]>> \o SubSeq(e, 3, Len(e)) }

\* C6: statistic is invariant under permutation of its input: an experiment
\* holding the same samples in another order gives the same result for the
\* same parameters.
C6_PermutationInvariant ==
    ks_statistic.some =>
        \A e \in Rearrangements(experiment_f32) :
            statistic(e, parameters) = ks_statistic.v

C6_Witness ==
    /\ ks_statistic.some
    /\ Len(experiment_f32) = 3
    /\ SampleCmp(experiment_f32[1], experiment_f32[2]) = 1
    /\ SampleCmp(experiment_f32[2], experiment_f32[3]) = 1
    /\ F32Gt(ks_statistic.v, F32Zero(0))

\* |x - y| < eps, as the tests compute it in f32
Within(x, y, eps) == F32Lt(F32Abs(F32Sub(x, y)), eps)

\* C7: for the samples [1.41, 0.26, 1.97, 0.33, 0.55, 0.77, 1.46, 1.18] with
\* a = 0, b = 2 statistic returns 0.145 within 1e-4, and within the 1e-5 of
\* the unit test; for [1.88, 0.10, 1.55, 0.89, 0.62, 1.30, 1.20, 1.01] with
\* the same parameters it returns 0.195 within 1e-4.
C7_PsuExamples ==
    (ks_statistic.some /\ parameters = [a |-> <<0, 0>>, b |-> <<0, 2>>]) =>
        /\ experiment_f32 = PsuData =>
              /\ Within(ks_statistic.v, Lit(145, 1000), Lit(1, 10000))
              /\ Within(ks_statistic.v, Lit(145, 1000), Lit(1, 100000))
        /\ experiment_f32 = DocData =>
              Within(ks_statistic.v, Lit(195, 1000), Lit(1, 10000))

C7_Witness ==
    /\ ks_statistic.some
    /\ parameters = [a |-> <<0, 0>>, b |-> <<0, 2>>]
    /\ experiment_f32 = PsuData
    /\ Within(ks_statistic.v, Lit(145, 1000), Lit(1, 100000))

\* the calls of run r on its checksum that are computes, in order
ComputeCalls(r) ==
    LET RECURSIVE Pick(_)
        Pick(q) == IF q = <<>> THEN <<>>
                   ELSE IF Head(q).op = "compute" THEN <<Head(q)>> \o Pick(Tail(q))
                   ELSE Pick(Tail(q))
    IN  Pick(run[r].calls)

\* C8: run returns an experiment with exactly trial_count samples, the i-th
\* being the checksum result of the i-th trial.
C8_OneSamplePerTrialInOrder ==
    \A r \in Runs :
        run[r].pc = "done" =>
            /\ run[r].returned.some
            /\ Len(run[r].returned.v) = run[r].num_experiments
            /\ Len(ComputeCalls(r)) = run[r].num_experiments
            /\ \A i \in 1..run[r].num_experiments :
                  run[r].returned.v[i] = ComputeCalls(r)[i].result

C8_Witness ==
    /\ run[1].pc = "done"
    /\ run[1].num_experiments = 2
    /\ run[1].message_size = 2
    /\ Len(run[1].returned.v) = 2
    /\ run[1].returned.v[1] # run[1].returned.v[2]

\* the calls of run r on its checksum alternate compute, reset, ...; there
\* is one reset per finished trial, num_experiments of them at the end
CallsAlternate(r) ==
    /\ \A k \in 1..Len(run[r].calls) :
          run[r].calls[k].op = (IF k % 2 = 1 THEN "compute" ELSE "reset")
    /\ Len(run[r].calls) \in {2 * run[r].i, 2 * run[r].i + 1, 2 * run[r].i + 2}
    /\ run[r].pc = "done" => Len(run[r].calls) = 2 * run[r].num_experiments

\* C9 as claimed: the calls alternate compute, reset, ..., reset is called
\* exactly trial_count times, and every compute starts from the checksum's
\* initial state.
C9_EveryComputeFromInitialState ==
    \A r \in Runs :
        /\ CallsAlternate(r)
        /\ \A k \in 1..Len(ComputeCalls(r)) :
              ComputeCalls(r)[k].from = ChecksumInitial

\* C9 as amended: the calls alternate compute, reset, ..., reset is called
\* exactly trial_count times, every compute after the first starts from the
\* checksum's initial state, and the first compute starts from the state the
\* checksum was in when run was called.
C9_ComputeFromInitialStateAfterReset ==
    \A r \in Runs :
        /\ CallsAlternate(r)
        /\ \A k \in 1..Len(ComputeCalls(r)) :
              ComputeCalls(r)[k].from =
                  (IF k = 1 THEN run[r].checksum_at_entry ELSE ChecksumInitial)

C9_Witness ==
    /\ run[1].pc = "done"
    /\ run[1].num_experiments = 2
    /\ run[1].message_size = 1
    /\ run[1].checksum_at_entry # ChecksumInitial
    /\ Len(run[1].calls) = 4
    /\ ComputeCalls(1)[1].from = run[1].checksum_at_entry
    /\ ComputeCalls(1)[2].from = ChecksumInitial

C11_NoDistributionWithAGreaterThanB ==
    distribution.kind # "none" => U32Le(distribution.a, distribution.b)

\* C12: on a distribution constructed with a <= b, every value sample() has
\* returned lies in [a, b] and every call changed the generator's state, for
\* both variants.  DiscreteUniformDistribution::sample returns the 32-bit
\* accumulator whatever a and b are.
C12_SamplesInRangeAndStateAdvances ==
    (distribution.kind # "none" /\ U32Le(distribution.a, distribution.b)) =>
        \A i \in 1..Len(distribution.samples) :
            /\ U32Le(distribution.a, distribution.samples[i])
            /\ U32Le(distribution.samples[i], distribution.b)
            /\ distribution.states[i + 1] # distribution.states[i]

\* the class of an f32 in the order the total order is to place them
OrdClass(x) ==
    IF x.s = 1
    THEN IF IsNaN(x) THEN 0 ELSE IF IsInf(x) THEN 1 ELSE IF IsZero(x) THEN 3 ELSE 2
    ELSE IF IsNaN(x) THEN 7 ELSE IF IsInf(x) THEN 6 ELSE IF IsZero(x) THEN 4 ELSE 5

\* C13: Ord::cmp gives Less, Equal or Greater for every pair of f32 values,
\* is antisymmetric, transitive and total, and places negative NaNs below
\* -infinity below the negative finite values below -0 below +0 below the
\* positive finite values below +infinity below positive NaNs.
C13_TotalOrderOverClasses ==
    ord_result.total.called =>
        LET t == ord_result.total
        IN  /\ {t.xy, t.yx, t.yz, t.xz} \subseteq {-1, 0, 1}
            /\ t.xy = -t.yx
            /\ t.xy = 0 => ord_args.x = ord_args.y
            /\ (t.xy <= 0 /\ t.yz <= 0) => t.xz <= 0
            /\ OrdClass(ord_args.x) < OrdClass(ord_args.y) => t.xy = -1
            /\ OrdClass(ord_args.x) > OrdClass(ord_args.y) => t.xy = 1

\* a negative NaN compared with -0 and -0 with +0
C13_Witness ==
    /\ ord_result.total.called
    /\ IsNaN(ord_args.x) /\ ord_args.x.s = 1
    /\ ord_args.y = F32Zero(1)
    /\ ord_args.z = F32Zero(0)
    /\ ord_result.total.xy = -1
    /\ ord_result.total.yz = -1

\* the numeric order of x and y read off their difference: -1, 0 or 1 for
\* x below, equal to or above y, and 2 when one of them is NaN
NumericOrder(x, y) ==
    IF IsNaN(x) \/ IsNaN(y) THEN 2
    ELSE IF IsInf(x) \/ IsInf(y)
    THEN LET rank(v) == IF ~IsInf(v) THEN 0 ELSE IF v.s = 1 THEN -1 ELSE 1
         IN  IF rank(x) < rank(y) THEN -1
             ELSE IF rank(x) > rank(y) THEN 1 ELSE 0
    ELSE LET d == F32Sub(x, y)
         IN  IF IsZero(d) THEN 0 ELSE IF d.s = 1 THEN -1 ELSE 1

\* C14: ==, !=, <, <=, >, >= and partial_cmp on Sample<f32> are the numeric
\* comparisons of the wrapped values, not the total order: equal values
\* (-0 and +0 among them) compare Equal, a smaller value Less, and with a
\* NaN partial_cmp gives no ordering and only != holds.
C14_OperatorsAreNumeric ==
    ord_result.partial.called =>
        LET p == ord_result.partial
            o == NumericOrder(ord_args.x, ord_args.y)
        IN  /\ p.partial_cmp = IF o = 2 THEN None ELSE Some(o)
            /\ p.eq = (o = 0)
            /\ p.ne = (o # 0)
            /\ p.lt = (o = -1)
            /\ p.le = (o \in {-1, 0})
            /\ p.gt = (o = 1)
            /\ p.ge = (o \in {0, 1})

\* -0 and +0 are equal to the operators after Ord::cmp has ordered them
C14_Witness ==
    /\ ord_result.partial.called
    /\ ord_result.total.called
    /\ ord_args.x = F32Zero(1)
    /\ ord_args.y = F32Zero(0)
    /\ ord_result.partial.eq
    /\ ord_result.partial.partial_cmp = Some(0)
    /\ ord_result.total.xy = -1

\* the lines that report a rejection, a failure to reject, and no decision
RejectLines ==
    { "yes, data does not follow a uniform distribution",
      "Data does not follow a uniform distribution" }
FailToRejectLines ==
    { "no,  data follows a uniform distribution",
      "Data follows a uniform distribution" }
InconclusiveLines == { "Invalid sample size" }

\* C15: the decision built on statistic and critical_value rejects exactly
\* when statistic >= critical_value, fails to reject exactly when statistic <
\* critical_value (as for the statistic 0.145 against the tabulated 0.410),
\* and reports the sample size as invalid exactly when critical_value is
\* None, that is for 40 samples or fewer, with no threshold in its place.
C15_DecisionRule ==
    ks_test.by # "none" =>
        LET t == ks_test
        IN  /\ t.line \in RejectLines <=>
                 (t.crit_val.some /\ F32Le(t.crit_val.v, t.statistic))
            /\ t.line \in FailToRejectLines <=>
                 (t.crit_val.some /\ F32Lt(t.statistic, t.crit_val.v))
            /\ t.line \in InconclusiveLines <=> ~t.crit_val.some
            /\ t.by = "perform_ks_test" =>
                 (t.crit_val.some <=> Len(t.experiment) > 40)
            /\ t.by = "test_works" =>
                 /\ Within(t.statistic, Lit(145, 1000), Lit(1, 10000))
                 /\ t.crit_val = Some(Lit(410, 1000))
                 /\ t.line \in FailToRejectLines

\* perform_ks_test has rejected on more than 40 samples
C15_Witness ==
    /\ ks_test.by = "perform_ks_test"
    /\ Len(ks_test.experiment) > 40
    /\ ks_test.crit_val.some
    /\ ks_test.line \in RejectLines

\* x is an f32 nearest to the exact ratio i / n, for 0 <= i <= n <= 127:
\* +0 for i = 0, and otherwise, with x = M * 2^(-k) and q, r the quotient and
\* remainder of i * 2^k by n (taken in two steps of 15 and k - 15 bits),
\* |M * n - i * 2^k| <= n / 2
NearestRatio(x, i, n) ==
    IF i = 0 THEN x = F32Zero(0)
    ELSE /\ x.s = 0 /\ IsFinite(x) /\ x.e > 0
         /\ LET M  == Sig(x)
                k  == -Exp(x)
                q1 == (i * 2^15) \div n
                r1 == (i * 2^15) % n
                q  == q1 * 2^(k - 15) + (r1 * 2^(k - 15)) \div n
                r  == (r1 * 2^(k - 15)) % n
                d  == (M - q) * n - r
            IN  /\ k \in 15..31
                /\ M - q \in {0, 1}
                /\ (IF d < 0 THEN -d ELSE d) * 2 <= n

\* C16: for every n, shifted_uniform_cdf_distribution(n) returns two
\* sequences of exactly n elements, the lower one holding at index i the f32
\* of the ratio i / n and the upper one that of (i + 1) / n, each the nearest
\* f32 to its ratio (as a division at that index gives, and a running sum of
\* 1 / n does not); for n = 5 they are [0, 0.2, 0.4, 0.6, 0.8] and
\* [0.2, 0.4, 0.6, 0.8, 1.0] exactly.
C16_RatiosAtEveryIndex ==
    cdf_out.result.done =>
        LET n == cdf_out.result.n
            lower == cdf_out.result.v.minus
            upper == cdf_out.result.v.plus
        IN  /\ Len(lower) = n /\ Len(upper) = n
            /\ DOMAIN lower = 1..n /\ DOMAIN upper = 1..n
            /\ \A i \in 0..(n - 1) :
                  /\ NearestRatio(lower[i + 1], i, n)
                  /\ NearestRatio(upper[i + 1], i + 1, n)
            /\ n = 5 =>
                  /\ lower = <<F32Zero(0), Lit(2, 10), Lit(4, 10), Lit(6, 10),
                               Lit(8, 10)>>
                  /\ upper = <<Lit(2, 10), Lit(4, 10), Lit(6, 10), Lit(8, 10),
                               F32One>>

\* the call with n = 5 has returned five ratios, the last of them 1.0
C16_Witness ==
    /\ cdf_out.result.done
    /\ cdf_out.result.n = 5
    /\ Len(cdf_out.result.v.minus) = 5
    /\ cdf_out.result.v.minus[1] = F32Zero(0)
    /\ cdf_out.result.v.plus[5] = F32One

\* C17: for n = 100000 the last element of the lower sequence is the f32
\* 0.99999 and the last of the upper sequence is 1.0, exactly, and the mean
\* of the means of the two sequences is within 0.000001 of 0.5.
C17_NoDriftAtLargeN ==
    /\ cdf_out.error_propagation.done =>
          /\ cdf_out.error_propagation.n = 100000
          /\ cdf_out.error_propagation.ucm_last = Lit(99999, 100000)
          /\ cdf_out.error_propagation.ucp_last = F32One
    /\ cdf_out.expected_mean.done =>
          /\ cdf_out.expected_mean.n = 100000
          /\ F32Lt(cdf_out.expected_mean.distance, Lit(1, 1000000))

\* both tests have run on the 100000 steps; the two means lie on the two
\* sides of 0.5
C17_Witness ==
    /\ cdf_out.error_propagation.done
    /\ cdf_out.expected_mean.done
    /\ cdf_n = 100000
    /\ F32Lt(cdf_out.expected_mean.ucm_mean, Lit(1, 2))
    /\ F32Lt(Lit(1, 2), cdf_out.expected_mean.ucp_mean)

\* C18: the conversions of counts and indices fail loudly: a sample count of
\* 2^32 or more in SimpleHistogram::new and in statistic, and a bin index
\* outside 0..num_bins, end in a panic, and no conversion hands on a wrapped,
\* saturated or truncated value that is then used; a conversion that goes
\* through keeps the value.  statistic converts with `n as u32` and builds
\* its two step sequences from the low 32 bits of the count.
C18_ConversionsFailLoudly ==
    conv.op # "none" =>
        /\ ~conv.wrapped_used
        /\ conv.op \in {"SimpleHistogram::new", "statistic"} =>
              /\ conv.count[1] # 0 => conv.outcome = "panic"
              /\ conv.outcome = "ok" => conv.value = conv.count
        /\ conv.op = "Experiment::run" =>
              conv.outcome = "ok" /\ conv.value = conv.count
        /\ conv.op = "bins[bin as usize]" =>
              (conv.outcome = "panic" <=> ~UsizeLt(conv.value, conv.count))

\* the reference quantiles of the tests for n = 41 and n = 1000
ReferenceQuantile(cv, n) ==
    IF n = 41
    THEN CASE cv = "TenPercent" -> Lit(163, 1000)
           [] cv = "FivePercent" -> Lit(187, 1000)
           [] cv = "OnePercent" -> Lit(232, 1000)
    ELSE CASE cv = "TenPercent" -> Lit(338, 10000)
           [] cv = "FivePercent" -> Lit(385, 10000)
           [] cv = "OnePercent" -> Lit(478, 10000)

\* C19: critical_value at n = 41 is within 0.03 of 0.163 (10%), 0.187 (5%)
\* and 0.232 (1%), and its 5% value within 0.05 of 0.211; at n = 1000 it is
\* within 0.01 of 0.0338 (10%), 0.0385 (5%) and 0.0478 (1%).
C19_ReferenceQuantiles ==
    \A c \in {cv_prev, cv_last} :
        c.level # "none" =>
            /\ c.n = 41 =>
                  /\ c.result.some
                  /\ Within(c.result.v, ReferenceQuantile(c.level, 41),
                            Lit(3, 100))
                  /\ c.level = "FivePercent" =>
                        Within(c.result.v, Lit(211, 1000), Lit(5, 100))
            /\ c.n = 1000 =>
                  /\ c.result.some
                  /\ Within(c.result.v, ReferenceQuantile(c.level, 1000),
                            Lit(1, 100))

\* the 5% values for 41 and for 1000 samples have been computed
C19_Witness ==
    /\ cv_prev.level = "FivePercent" /\ cv_prev.n = 41
    /\ cv_last.level = "FivePercent" /\ cv_last.n = 1000
    /\ cv_prev.result.some /\ cv_last.result.some
    /\ F32Lt(cv_last.result.v, cv_prev.result.v)

\* C20: SimpleHistogram::new(experiment, num_bins) returns a histogram whose
\* num_bins is the argument, whose bins has exactly num_bins elements and
\* whose num_data_points is the number of samples of the experiment, and the
\* call leaves the experiment as it was.  For an experiment with a sample of
\* 2^32 - 128 or more the code returns no histogram: it panics (see C1).
C20_HistogramFields ==
    /\ [](histogram.status # "none" =>
            /\ histogram.status = "ok"
            /\ histogram.num_bins \in HistNumBins
            /\ Len(histogram.bins) = histogram.num_bins
            /\ histogram.num_data_points = Len(experiment_u32))
    /\ [][histogram'.status # "none" => experiment_u32' = experiment_u32]_vars

\* the 0-indexed rank of sample j of e in ascending numeric order, equal
\* samples ranked in their order in e
Rank(e, j) ==
    Cardinality({k \in 1..Len(e) :
                    \/ F32Lt(e[k], e[j])
                    \/ F32Eq(e[k], e[j]) /\ k < j})

\* the f32 of the step r / n
Step(r, n) == F32Div(U32ToF32(U32(r)), U32ToF32(U32(n)))

\* the differences |(rank + shift) / n - F(x)| over the samples x of e
Differences(e, p, shift) ==
    { F32Abs(F32Sub(Step(Rank(e, j) + shift, Len(e)),
                    normalize_variable(e[j], p))) : j \in 1..Len(e) }

\* the greatest of the f32 values of S, none of them NaN; 0.0 for no value
Greatest(S) ==
    IF S = {} THEN F32Zero(0)
    ELSE CHOOSE d \in S : \A c \in S : F32Le(c, d)

\* C21: statistic returns D = max(D-, D+) with D- = max_i |i/n - F(x_i)| and
\* D+ = max_i |(i+1)/n - F(x_i)|, i being the 0-indexed rank of x_i among the
\* samples in ascending order and n their number.
C21_MaxOfShiftedDifferences ==
    ks_statistic.some =>
        LET d_minus == Greatest(Differences(experiment_f32, parameters, 0))
            d_plus  == Greatest(Differences(experiment_f32, parameters, 1))
        IN  /\ ks_statistic.v \in {d_minus, d_plus}
            /\ F32Le(d_minus, ks_statistic.v)
            /\ F32Le(d_plus, ks_statistic.v)

\* D- is the greater: one sample at the upper end b
C21_Witness ==
    /\ ks_statistic.some
    /\ experiment_f32 = <<Lit(2, 1)>>
    /\ parameters = [a |-> <<0, 0>>, b |-> <<0, 2>>]
    /\ ks_statistic.v = F32One
    /\ Greatest(Differences(experiment_f32, parameters, 1)) = F32Zero(0)

\* floor(v * num_bins / 2^32) for the u32 v = hi * 2^16 + lo, in integers
ExactBin(v, num_bins) ==
    (v[1] * num_bins + (v[2] * num_bins) \div 2^16) \div 2^16

\* C22: every sample v is counted in the bin floor(v * num_bins / 2^32): bin
\* k holds as many as there are samples with that exact index, so no sample
\* is moved to a neighbouring bin by the rounding of v or of the bin width.
\* The code multiplies `v as f32` by the f32 bin width: 429496729 (below
\* 2^32 / 10) becomes 429496736 and lands in bin 1 of 10.
C22_ExactEqualWidthBins ==
    histogram.status = "ok" =>
        \A k \in 0..(histogram.num_bins - 1) :
            histogram.bins[k + 1] =
                Cardinality({i \in 1..Len(experiment_u32) :
                    ExactBin(experiment_u32[i], histogram.num_bins) = k})

\* C23: the message of each trial has exactly message_size bytes, byte j of
\* it being bits 31..24 of the j-th sample drawn in that trial; the samples
\* are drawn in order, message_size per trial and message_size * trial_count
\* in all, and no byte of an earlier message is left in a later one.
C23_MessageFromTopBytes ==
    \A r \in Runs :
        LET ms == run[r].message_size
        IN  /\ run[r].pc \in {"fill", "reset", "store", "return", "done"} =>
                  /\ Len(ComputeCalls(r)) * ms <= Len(run[r].drawn)
                  /\ Len(run[r].drawn) <= (Len(ComputeCalls(r)) + 1) * ms
            /\ run[r].pc = "done" =>
                  Len(run[r].drawn) = ms * run[r].num_experiments
            /\ \A t \in 1..Len(ComputeCalls(r)) :
                  /\ Len(ComputeCalls(r)[t].message) = ms
                  /\ \A j \in 1..ms :
                        ComputeCalls(r)[t].message[j] =
                            run[r].drawn[(t - 1) * ms + j][1] \div 2^8

\* two trials of two bytes each, the second message unlike the first
C23_Witness ==
    /\ run[1].pc = "done"
    /\ run[1].message_size = 2
    /\ run[1].num_experiments = 2
    /\ Len(run[1].drawn) = 4
    /\ ComputeCalls(1)[1].message # ComputeCalls(1)[2].message
    /\ ComputeCalls(1)[2].message[1] = run[1].drawn[3][1] \div 2^8

\* the accumulator after n calls of sample() from `seed`, each one update
\* with bits 31..24 of the accumulator before it
RECURSIVE NthSample(_, _)
NthSample(seed, n) ==
    IF n = 0 THEN seed
    ELSE LET before == NthSample(seed, n - 1)
         IN  PrngUpdate(before, before[1] \div 2^8)

\* C24: each sample() of the reused-checksum-state generator feeds bits
\* 31..24 of the current accumulator to the update once and returns the
\* updated accumulator, so the n-th sample is a function of the seed and n;
\* a and b are left as they were.
C24_SampleIsOneUpdateWithTopByte ==
    /\ [](distribution.kind = "DiscreteUniformDistribution" =>
            /\ Len(distribution.states) = Len(distribution.samples) + 1
            /\ \A n \in 1..Len(distribution.samples) :
                  distribution.samples[n] = NthSample(distribution.states[1], n))
    /\ [][distribution.kind = "DiscreteUniformDistribution" =>
            /\ distribution'.a = distribution.a
            /\ distribution'.b = distribution.b
            /\ distribution'.state =
                   PrngUpdate(distribution.state, distribution.state[1] \div 2^8)
            /\ distribution'.samples =
                   Append(distribution.samples, distribution'.state)]_vars

\* three calls on a generator with a < b, giving three different values
C24_Witness ==
    /\ distribution.kind = "DiscreteUniformDistribution"
    /\ U32Lt(distribution.a, distribution.b)
    /\ Len(distribution.samples) = 3
    /\ distribution.samples[3] = NthSample(distribution.states[1], 3)
    /\ Cardinality({distribution.samples[n] : n \in 1..3}) = 3
    /\ distribution.state = distribution.samples[3]

\* C25: for a < b normalize_variable is F(x) = (x - a) / (b - a): F(a) = 0
\* and F(b) = 1, F(1.5) = 0.75 on [0, 2], F(2.5) = 0.75 and F(1.0) = 0.0 on
\* [1, 3].  The code multiplies by the f32 reciprocal of b - a.
C25_NormalizeEndsAndExamples ==
    norm.result.some =>
        LET p == norm.parameters
            F == norm.result.v
        IN  /\ norm.item = U32ToF32(p.a) => IsZero(F)
            /\ norm.item = U32ToF32(p.b) => F = F32One
            /\ (p = [a |-> <<0, 0>>, b |-> <<0, 2>>] /\ norm.item = Lit(3, 2))
                  => F = Lit(3, 4)
            /\ (p = [a |-> <<0, 1>>, b |-> <<0, 3>>] /\ norm.item = Lit(5, 2))
                  => F = Lit(3, 4)
            /\ (p = [a |-> <<0, 1>>, b |-> <<0, 3>>] /\ norm.item = F32One)
                  => F = F32Zero(0)

\* how many elements of q have the bits of v
Occurrences(q, v) == Cardinality({i \in 1..Len(q) : q[i] = v})

\* C26: sort() of a vector of Sample<f32> with finite values gives a
\* permutation of the input in non-decreasing numeric order; the data of the
\* test sorts to 0.26, 0.31, 0.55, 0.85, 1.18, 1.23, 1.62, 1.91.
C26_SortedPermutation ==
    (/\ sorting.sorted.some
     /\ \A i \in 1..Len(sorting.samples) :
           ~IsNaN(sorting.samples[i]) /\ ~IsInf(sorting.samples[i])) =>
        LET out == sorting.sorted.v
        IN  /\ Len(out) = Len(sorting.samples)
            /\ \A v \in SortValues \cup {SortTestData[i] : i \in 1..8} :
                  Occurrences(out, v) = Occurrences(sorting.samples, v)
            /\ \A i \in 1..Len(out) : \A j \in i..Len(out) :
                  F32Le(out[i], out[j])
            /\ sorting.samples = SortTestData => out = SortTestSorted

\* the eight values of the test, sorted
C26_Witness ==
    /\ sorting.samples = SortTestData
    /\ sorting.sorted = Some(SortTestSorted)
    /\ sorting.sorted.v # sorting.samples

\* C27: statistic returns neither NaN nor a negative value on any input: a
\* difference that is NaN (a NaN sample, or a = b) replaces neither maximum,
\* and the empty experiment gives exactly 0.0 and does not panic.
C27_NeverNaNNorNegative ==
    /\ ks_statistic.some =>
          LET v == ks_statistic.v
              F == [k \in 1..Len(experiment_f32) |->
                       normalize_variable(experiment_f32[k], parameters)]
          IN  /\ ~IsNaN(v)
              /\ v.s = 0
              /\ (\A k \in 1..Len(experiment_f32) : IsNaN(F[k]))
                    => v = F32Zero(0)
    /\ (experiment_f32 = <<>> /\ ks_statistic # None) =>
          ks_statistic = Some(F32Zero(0))

\* a NaN sample and a finite one on [1, 3]: the NaN is skipped and the
\* result is the difference of the finite sample
C27_Witness ==
    /\ experiment_f32 = <<F32NaN, F32One>>
    /\ parameters = [a |-> <<0, 1>>, b |-> <<0, 3>>]
    /\ ks_statistic.some
    /\ ~IsNaN(ks_statistic.v)
    /\ F32Gt(ks_statistic.v, F32Zero(0))

\* the levels in the order 10%, 5%, 1%
LevelRank(level) ==
    CASE level = "TenPercent" -> 1
      [] level = "FivePercent" -> 2
      [] level = "OnePercent" -> 3

\* C28: for every n > 40 the critical values are ordered by level,
\* critical_value(TenPercent, n) < critical_value(FivePercent, n) <
\* critical_value(OnePercent, n), so a statistic above the 1% value is above
\* the 5% and the 10% values.
C28_OrderedBySignificance ==
    (/\ cv_prev.level # "none" /\ cv_last.level # "none"
     /\ cv_prev.n = cv_last.n
     /\ cv_last.n > 40) =>
        /\ cv_prev.result.some /\ cv_last.result.some
        /\ LevelRank(cv_prev.level) < LevelRank(cv_last.level)
              => F32Lt(cv_prev.result.v, cv_last.result.v)
        /\ LevelRank(cv_prev.level) > LevelRank(cv_last.level)
              => F32Lt(cv_last.result.v, cv_prev.result.v)
        /\ LevelRank(cv_prev.level) = LevelRank(cv_last.level)
              => cv_prev.result = cv_last.result

\* the 5% and the 1% value of the largest sample size
C28_Witness ==
    /\ cv_prev.level = "FivePercent" /\ cv_last.level = "OnePercent"
    /\ cv_prev.n = MaxN /\ cv_last.n = MaxN
    /\ cv_prev.result.some /\ cv_last.result.some
    /\ F32Lt(cv_prev.result.v, cv_last.result.v)

\* C29: with trial_count = 0 Experiment::run returns an empty experiment and
\* calls neither sample() nor compute() nor reset(), so both collaborators
\* stay in the states they were given in; with message_size = 0 and
\* trial_count > 0 it draws no sample and calls compute on the empty message
\* once per trial.
C29_ZeroTrialsAndEmptyMessages ==
    \A r \in Runs :
        /\ run[r].num_experiments = 0 =>
              /\ run[r].drawn = <<>>
              /\ run[r].calls = <<>>
              /\ run[r].prng = run[r].prng_at_entry
              /\ run[r].checksum = run[r].checksum_at_entry
              /\ run[r].pc = "done" => run[r].returned = Some(<<>>)
        /\ (run[r].message_size = 0 /\ run[r].num_experiments > 0) =>
              /\ run[r].drawn = <<>>
              /\ run[r].prng = run[r].prng_at_entry
              /\ \A t \in 1..Len(ComputeCalls(r)) :
                    ComputeCalls(r)[t].message = <<>>
              /\ run[r].pc = "done" =>
                    Len(ComputeCalls(r)) = run[r].num_experiments

\* a run of no trials has returned, its checksum still in the state it was
\* given in, which is not the initial one
C29_Witness ==
    /\ run[1].pc = "done"
    /\ run[1].num_experiments = 0
    /\ run[1].message_size = 2
    /\ run[1].returned = Some(<<>>)
    /\ run[1].calls = <<>>
    /\ run[1].checksum = ChecksumUpdate(ChecksumInitial, 200)

\* C30: Ord::cmp gives Equal exactly for two values of identical bits, and so
\* differs from == in exactly two cases: -0.0 and +0.0, which are == while
\* cmp orders them (-0.0 Less than +0.0), and a NaN compared with itself,
\* which is != while cmp gives Equal.
C30_EqualIffSameBits ==
    (ord_result.total.called /\ ord_result.partial.called) =>
        LET x == ord_args.x
            y == ord_args.y
            t == ord_result.total
            p == ord_result.partial
        IN  /\ (t.xy = 0) <=> (x = y)
            /\ ((t.xy = 0) # p.eq) <=>
                  \/ IsZero(x) /\ IsZero(y) /\ x.s # y.s
                  \/ IsNaN(x) /\ x = y
            /\ (x = F32Zero(1) /\ y = F32Zero(0)) => (p.eq /\ t.xy = -1)
            /\ (IsNaN(x) /\ x = y) => (p.ne /\ ~p.eq /\ t.xy = 0)

\* a NaN compared with itself
C30_Witness ==
    /\ ord_result.total.called /\ ord_result.partial.called
    /\ IsNaN(ord_args.x)
    /\ ord_args.y = ord_args.x
    /\ ord_result.partial.ne
    /\ ord_result.total.xy = 0

=============================================================================
